---- MODULE Spec2Model ----
(***************************************************************************)
(* Regional game-client engine of Haruki-Sekai-API (SekaiClient): the      *)
(* session pool, the per-session api lock and token cell, the retry and    *)
(* recovery loop of get_game_api, the account reload driven by the file    *)
(* watcher, and the other users of a pooled session (the master updater's  *)
(* forced login, the CP image fetch).  Every await point of the source is  *)
(* a step boundary; the upstream is a separate actor that answers each     *)
(* request in flight with any response or with a transport error.          *)
(***************************************************************************)
EXTENDS Integers, Sequences, FiniteSets, TLC

\* ------------------------------------------------------------------------
\* Program constants
\* ------------------------------------------------------------------------
\* get_game_api: let max_retries = 4
max_retries == 4
\* call_api: let max_retries = 4 (send attempts under the api lock)
call_api_max_retries == 4
\* start_file_watcher: debounce_duration = 2 s
debounce_duration == 2
\* reload_accounts: sleep 3 s before the pool is cleared
reload_drain == 3

\* ------------------------------------------------------------------------
\* Bounds of the model
\* ------------------------------------------------------------------------
\* account descriptors that may exist in the account directory
NumAccounts == 2
\* answers other than a well-formed 200 the upstream gives in one run: to a
\* single caller (enough for four recovered rounds), to concurrent
\* callers, and while the pool is reloaded
RetryFaults == 4
ConcFaults == 1
PoolFaults == 1
\* file-system events the account directory produces in one run: under the
\* watcher alone, and while images are fetched
MaxEvents == 2
MaxReloads == 1
\* invocations of the image fetch in one run
MaxFetches == 4

Accounts == 1..NumAccounts
Callers == {"c1", "c2"}
Master == "master"
Image == "image"
Loader == "loader"
Procs == Callers \cup {Master, Image, Loader}
\* session objects alive at once: the pool, and one held by each task
Sids == 1..(NumAccounts + Cardinality(Procs))

\* ------------------------------------------------------------------------
\* Upstream responses
\* ------------------------------------------------------------------------
NetErr == [st |-> 0, ct |-> "", body |-> "", hdr |-> FALSE, btok |-> FALSE, uid |-> FALSE]
\* st: status, ct: Content-Type, body: whether the body decrypts and decodes
\* to a map, hdr: the response carries X-Session-Token, btok: the decoded
\* body carries a non-empty sessionToken, uid: the decoded body carries a
\* userRegistration whose userId is neither empty nor "0".  The shapes the
\* upstream answers
\* with: one per branch of the two classifiers that the retry loop tells apart.
Shapes ==
    { <<200, "octet-stream", "map">>, <<200, "octet-stream", "garbage">>,
      <<403, "octet-stream", "map">>, <<426, "octet-stream", "map">>,
      <<503, "octet-stream", "map">>, <<503, "binary", "map">>,
      <<403, "xml", "map">> }
Responses ==
    { r \in { [st |-> sh[1], ct |-> sh[2], body |-> sh[3], hdr |-> h, btok |-> b,
                 uid |-> u] :
                sh \in Shapes, h \in BOOLEAN, b \in BOOLEAN, u \in BOOLEAN } :
        (r.btok \/ r.uid) => (r.st = 200 /\ r.body = "map") }
WellFormed(r) == r.st = 200 /\ r.ct \in {"octet-stream", "binary"} /\ r.body = "map"

\* SekaiHttpStatus::from_code
KnownStatuses == {200, 400, 403, 404, 409, 426, 500, 503}
from_code(st) == IF st \in KnownStatuses THEN st ELSE -1

IsBinary(ct) == ct \in {"octet-stream", "binary"}

\* SekaiClient::handle_response_ordered, as the name of its outcome
handle_response_ordered(r) ==
    IF IsBinary(r.ct)
    THEN CASE from_code(r.st) = -1 -> "InvalidHttpStatus"
           [] r.st \in {200, 400, 404, 409} ->
                 IF r.body = "map" THEN "Ok" ELSE "CryptoError"
           [] r.st = 403 -> "SessionError"
           [] r.st = 426 -> "UpgradeRequired"
           [] r.st = 503 -> "UnderMaintenance"
           [] OTHER -> "Unknown"
    ELSE "Unknown"

\* SekaiClient::handle_response (the typed variant login uses)
handle_response(r) ==
    IF IsBinary(r.ct)
    THEN CASE from_code(r.st) = -1 -> "InvalidHttpStatus"
           [] r.st \in {200, 400, 404, 409} ->
                 IF r.body = "map" THEN "Ok" ELSE "CryptoError"
           [] r.st = 403 -> "SessionError"
           [] r.st = 426 -> "UpgradeRequired"
           [] r.st = 503 -> "UnderMaintenance"
           [] OTHER -> "Unknown"
    ELSE CASE from_code(r.st) = -1 -> "InvalidHttpStatus"
           [] r.st = 503 -> "UnderMaintenance"
           [] r.st = 500 -> "Unknown"
           [] r.st = 403 /\ r.ct = "xml" -> "CookieExpired"
           [] OTHER -> "Unknown"

\* ------------------------------------------------------------------------
\* State
\* ------------------------------------------------------------------------
VARIABLES
    sessions,            \* SekaiClient.sessions: the pool, a sequence of session objects
    session_index,       \* SekaiClient.session_index (AtomicUsize)
    reload_in_progress,  \* SekaiClient.reload_in_progress (AtomicBool)
    headers,             \* SekaiClient.headers: the version and Cookie entries
    token,               \* AccountSession.session_token of every session object (0: None)
    api_lock,            \* AccountSession.api_lock of every session object
    account,             \* AccountSession.account of every session object (0: no object)
    user_id,             \* the user_id of that account ("": empty or no object)
    pc,                  \* position of every task in its code
    session,             \* the session object a task picked or made
    retry_count,         \* get_game_api: retry_count
    attempt,             \* call_api: attempt
    result,              \* what a finished task returned
    exch,                \* the HTTP exchange a task has in flight
    lastIssued,          \* upstream: the token of its latest response, per session object
    faults,              \* upstream: answers other than a well-formed 200 still to come
    log,                 \* history: the answers and refreshes of every get_game_api call
    sent,                \* history: the HTTP requests every get_game_api call has sent
    picks,               \* history: what get_session returned since the pool last changed
    loginOk,             \* history: session objects whose login has returned Ok
    todo,                \* init / reload_accounts: accounts still to log in
    dir,                 \* the account directory: the descriptors present
    elapsed,             \* start_file_watcher: last_reload.elapsed(), in seconds
    rx,                  \* start_file_watcher: the channel of pending events
    sinceEvent,          \* history: seconds since the latest event arrived
    evlog,               \* history: every event, how long after the one before it
                         \* arrived and what it caused
    fetches,             \* image fetches still to come
    events,              \* file-system events still to come
    version_file,        \* the version manifest on disk (VersionHelper.version_file_path)
    region,              \* SekaiClient.region: a CP server or a Nuverse server
    files,               \* the content of every account descriptor
    manifest_file,       \* the keys of the version manifest on disk, as the updaters see it
    updater,             \* the Master Sync run and the App-Hash Sync run of the region
    input,               \* the argument a pure function of the program is applied to
    output               \* what it returned

poolVars == <<sessions, session_index, picks>>
engineVars == <<poolVars, reload_in_progress, headers>>
sessVars == <<token, api_lock, account, user_id, lastIssued, loginOk>>
taskVars == <<pc, session, retry_count, attempt, result, exch>>
histVars == <<log, sent>>
watchVars == <<dir, elapsed, rx, sinceEvent, evlog>>
budgetVars == <<fetches, events>>
envVars == <<version_file, region, files, input, output, manifest_file, updater>>
vars == <<engineVars, sessVars, taskVars, faults, histVars, todo, watchVars, budgetVars,
          envVars>>

\* ServerConfig.require_cookies of the region (JP: true)
require_cookies == TRUE
\* the version the manifest file holds; the header book starts from it
versionFile == 1

NoExch == [state |-> "none", kind |-> "", sid |-> 0, tok |-> 0, ver |-> 0,
           resp |-> NetErr, htok |-> 0, btokv |-> 0]

\* the manifest file before the updaters run: the app pair, the keys the
\* master updater writes, and a key neither writes
InitialManifest ==
    [appVersion |-> "1", appHash |-> "h1", dataVersion |-> <<"1">>, assetVersion |-> <<"1">>,
     assetHash |-> "x1", cdnVersion |-> 1, other |-> "kept"]
\* the asset-updater endpoints of the configuration
Endpoints == {"e1", "e2"}
\* no updater run has started
UpdaterIdle ==
    [master |-> "idle", current |-> InitialManifest, login |-> InitialManifest,
     need_master |-> FALSE, need_asset |-> FALSE, existing |-> InitialManifest,
     endpoint |-> [e \in Endpoints |-> [state |-> "ready", conflicts |-> 0, last |-> "none"]],
     apphash |-> "idle", app_current |-> [app_version |-> "1", app_hash |-> "h1"],
     new_info |-> [app_version |-> "1", app_hash |-> "h1"], version |-> InitialManifest]

\* the engine before init, with nothing of the environment decided
InitEngine(dirs, faultBudget, fetchBudget, eventBudget) ==
    /\ sessions = <<>>
    /\ session_index = 0
    /\ reload_in_progress = FALSE
    /\ headers = [ver |-> versionFile, cookie |-> 0]
    /\ token = [s \in Sids |-> 0]
    /\ api_lock = [s \in Sids |-> "free"]
    /\ account = [s \in Sids |-> 0]
    /\ user_id = [s \in Sids |-> ""]
    /\ pc = [p \in Procs |-> IF p = Loader THEN "init" ELSE "idle"]
    /\ session = [p \in Procs |-> 0]
    /\ retry_count = [c \in Callers |-> 0]
    /\ attempt = [c \in Callers |-> 0]
    /\ result = [p \in Procs |-> "none"]
    /\ exch = [p \in Procs |-> NoExch]
    /\ lastIssued = [s \in Sids |-> 0]
    /\ faults = faultBudget
    /\ log = [c \in Callers |-> <<>>]
    /\ sent = [c \in Callers |-> 0]
    /\ picks = <<>>
    /\ loginOk = {}
    /\ todo = <<>>
    /\ dir \in dirs
    /\ elapsed = 0
    /\ rx = <<>>
    /\ sinceEvent = 0
    /\ evlog = <<>>
    /\ fetches = fetchBudget
    /\ events = eventBudget
    /\ version_file = versionFile
    /\ manifest_file = InitialManifest
    /\ updater = UpdaterIdle

\* an account descriptor: tok is what the user id extraction from its token
\* returned ("none": Err, else the Ok value), fb the userId field of the file
\* ("": absent or null); "id" stands for a decimal number other than 0 and
\* "bad" for a string that is not a number
AccountFiles == [tok : {"none", "", "id"}, fb : {"", "0", "id", "bad"}]
GoodFile == [tok |-> "id", fb |-> ""]
Regions == {"cp", "nuverse"}

\* the engine before init on a CP server whose descriptors all carry a token
\* with a user id; no pure function is being applied
InitWith(dirs, faultBudget, fetchBudget, eventBudget) ==
    /\ InitEngine(dirs, faultBudget, fetchBudget, eventBudget)
    /\ region = "cp"
    /\ files = [a \in Accounts |-> GoodFile]
    /\ input = <<>>
    /\ output = <<>>

\* the engine serves requests once init has returned (main.rs: init_app_state
\* awaits every init before the router, the scheduler and the watcher start)
Running == pc[Loader] = "watch" \/ reload_in_progress

\* ------------------------------------------------------------------------
\* Helpers shared by the operations
\* ------------------------------------------------------------------------
\* the ascending sequence of a set of accounts (the order read_dir lists them)
RECURSIVE SeqOf(_)
SeqOf(S) == IF S = {} THEN <<>>
            ELSE LET m == CHOOSE x \in S : \A y \in S : x <= y
                 IN <<m>> \o SeqOf(S \ {m})

Range(f) == {f[i] : i \in DOMAIN f}

\* a task holds an Arc<AccountSession> from the pick (or AccountSession::new)
\* until it returns
Holding(p, at) ==
    IF p = Loader THEN at = "login_recv"
    ELSE at \in {"send", "recv", "login_send", "login_recv", "refresh_version",
                 "refresh_cookies"}

\* the session objects some Arc still points to, for a pool and task positions
LiveIn(pool, at) == Range(pool) \cup {session[p] : p \in {q \in Procs : Holding(q, at[q])}}

\* Arc<AccountSession>: an object nothing points to any more is dropped (its
\* slot is blank again); tok, lock and ok are the cells before the drop
Release(tok, lock, ok, pool, at, uid) ==
    LET live == LiveIn(pool, at) IN
    /\ token' = [s \in Sids |-> IF s \in live THEN tok[s] ELSE 0]
    /\ api_lock' = [s \in Sids |-> IF s \in live THEN lock[s] ELSE "free"]
    /\ account' = [s \in Sids |-> IF s \in live THEN account[s] ELSE 0]
    /\ user_id' = [s \in Sids |-> IF s \in live THEN uid[s] ELSE ""]
    /\ lastIssued' = [s \in Sids |-> IF s \in live THEN lastIssued[s] ELSE 0]
    /\ loginOk' = ok \cap live

\* (a constructor that hands out the first slot again)
first_sid == CHOOSE s \in Sids : \A t \in Sids : s <= t

\* AccountSession::new: a fresh session object
NewSid == CHOOSE s \in Sids : account[s] = 0 /\ \A t \in Sids : account[t] = 0 => s <= t

\* (a pool of one session taken for an empty one)
sessions_is_short(pool) == Len(pool) <= 1

\* get_session: sessions.is_empty() under the read lock of the pool
sessions_is_empty(pool) == pool = <<>>

\* (a pick that ignores the index)
get_session_idx_first(index, len) == 0

\* get_session: idx = session_index.fetch_add(1) % sessions.len()
get_session_idx(index, len) == index % len

\* get_session, for a non-empty pool: the session returned to task p
get_session(p) ==
    LET s == sessions[get_session_idx(session_index, Len(sessions)) + 1]
    IN /\ session' = [session EXCEPT ![p] = s]
       /\ session_index' = session_index + 1
       /\ picks' = Append(picks, s)

\* an entry of a call's history: an answered GET or login, or a refresh (st:
\* the status of the answer; for a refresh_version, the version it loaded)
Entry(op, st, ct, out, s) == [op |-> op, st |-> st, ct |-> ct, out |-> out, sid |-> s]

\* prepare_request + send: the exchange now in flight carries the headers of
\* the header book and the current token
Sent(kind, s) == [state |-> "sent", kind |-> kind, sid |-> s, tok |-> token[s],
                  ver |-> headers.ver, resp |-> NetErr, htok |-> 0, btokv |-> 0]

\* (a token cell that follows the header of a 200 response only)
update_session_token_on_200(old, e) == IF e.resp.hdr /\ e.resp.st = 200 THEN e.htok ELSE old

\* update_session_token: the cell after a response has been received
update_session_token(old, e) == IF e.resp.hdr THEN e.htok ELSE old

\* login: its result for an answered exchange
login_result(e) ==
    IF e.resp = NetErr THEN "NetworkError" ELSE handle_response(e.resp)

\* login: the token cell after the exchange (header first, then the body's
\* sessionToken when the call succeeded and it is not empty)
login_token(old, e) ==
    IF e.resp = NetErr THEN old
    ELSE LET t1 == update_session_token(old, e)
         IN IF handle_response(e.resp) = "Ok" /\ e.resp.btok THEN e.btokv ELSE t1

\* login: the user id of the session after the exchange (on a Nuverse server
\* the userRegistration of a successful login replaces it)
login_user_id(old, e) ==
    IF e.resp # NetErr /\ handle_response(e.resp) = "Ok" /\ region # "cp" /\ e.resp.uid
    THEN "id" ELSE old

\* parse_account_value: the user_id of the parsed account
parse_account_value(f) == IF f.tok # "none" THEN f.tok ELSE f.fb

\* (a loop that skips nothing)
skip_account_never(r, uid) == FALSE

\* init / reload_accounts: if region.is_cp_server() && account.user_id().is_empty()
skip_account(r, uid) == r = "cp" /\ uid = ""

\* SekaiAccount::dump: the Nuverse payload needs user_id.parse::<i64>()
dump_account(r, uid) == IF r = "cp" \/ uid \in {"0", "id"} THEN "Ok" ELSE "ParseError"

\* (a refresh that leaves the header book alone)
update_version_headers_keep(h, version) == h

\* update_version_headers: the four version entries of the header book are
\* inserted under one lock
update_version_headers(h, version) == [h EXCEPT !.ver = version]

\* (a lock that lets everybody in)
lock_always(holder, p) == TRUE

\* call_api: session.lock_api().await succeeds when nobody else holds the lock
lock_available(holder, p) == holder \in {"free", p}


\* (a send loop that goes round once more)
call_api_one_more(n) == n <= call_api_max_retries

\* call_api, for attempt in 1..=max_retries: the loop body runs again after
\* a failed attempt n
call_api_continues(n) == n < call_api_max_retries

\* (a loop that allows one round more)
loop_one_more(n) == n <= max_retries

\* get_game_api: the loop condition, after retry_count became n
loop_continues(n) == n < max_retries

\* (a match whose SessionError arm refreshes the version instead of logging in)
gga_branch_no_login(outcome) ==
    CASE outcome = "Ok" -> "return_ok"
      [] outcome = "SessionError" -> "refresh_version"
      [] outcome = "UpgradeRequired" -> "refresh_version"
      [] OTHER -> "return_err"

\* (a match that treats maintenance as an expired session)
gga_branch_retry_maintenance(outcome) ==
    CASE outcome = "Ok" -> "return_ok"
      [] outcome \in {"SessionError", "UnderMaintenance"} -> "login"
      [] outcome = "UpgradeRequired" -> "refresh_version"
      [] OTHER -> "return_err"

\* get_game_api: where the match on the classified response leads
gga_branch(outcome) ==
    CASE outcome = "Ok" -> "return_ok"
      [] outcome = "SessionError" -> "login"
      [] outcome = "CookieExpired" ->
            IF require_cookies THEN "refresh_cookies" ELSE "return_err"
      [] outcome = "UpgradeRequired" -> "refresh_version"
      [] OTHER -> "return_err"

\* (a loop that keeps every session)
push_always(res) == TRUE

\* init / reload_accounts: a session enters the pool when its login returned Ok
push_on(res) == res = "Ok"

\* start_file_watcher: if last_reload.elapsed() < debounce_duration
debounced(e) == e < debounce_duration

\* the position of get_game_api after a recovery: next round, or retries exhausted
AfterRecovery(c) ==
    IF loop_continues(retry_count[c] + 1) THEN "send" ELSE "done"

\* ------------------------------------------------------------------------
\* The upstream
\* ------------------------------------------------------------------------
\* what the upstream may answer to a request of each kind (a login answer
\* carries a userRegistration only where login reads it: off a CP server)
AnswersFor(kind) ==
    CASE kind = "login" -> {r \in Responses : r.uid => region # "cp"} \cup {NetErr}
      [] kind = "api" -> {r \in Responses : ~r.btok /\ ~r.uid} \cup {NetErr}
      [] OTHER -> {r \in Responses : /\ r.ct = "octet-stream" /\ r.st \in {200, 403}
                                     /\ r.body = "map" /\ ~r.hdr /\ ~r.btok /\ ~r.uid}
                    \cup {NetErr}

\* the answers that do not count against the fault budget
Plain(kind, r) == r # NetErr /\ (IF kind = "image" THEN r.st = 200 ELSE WellFormed(r))

\* the upstream answers the request task p has in flight; a response that
\* carries a token carries a fresh one, which replaces the session's token
\* at the upstream
UpstreamAnswer(p) ==
    /\ exch[p].state = "sent"
    /\ \E r \in AnswersFor(exch[p].kind) :
          LET s == exch[p].sid
              n == lastIssued[s] + 1
              plain == Plain(exch[p].kind, r)
          IN /\ plain \/ faults > 0
             /\ faults' = IF plain THEN faults ELSE faults - 1
             /\ exch' = [exch EXCEPT ![p] = [@ EXCEPT !.state = "answered", !.resp = r,
                                                      !.htok = IF r.hdr THEN n ELSE 0,
                                                      !.btokv = IF r.btok THEN n ELSE 0]]
             /\ lastIssued' = [lastIssued EXCEPT ![s] = IF r.hdr \/ r.btok THEN n ELSE @]
    /\ UNCHANGED <<engineVars, token, api_lock, account, user_id, loginOk, pc, session,
                   retry_count, attempt, result, histVars, todo, watchVars, budgetVars, envVars>>

\* ------------------------------------------------------------------------
\* get_game_api (with call_api and login inlined at their await points)
\* ------------------------------------------------------------------------
\* a request handler calls get_game_api
GgaEnter(c) ==
    /\ pc[c] = "idle"
    /\ Running
    /\ pc' = [pc EXCEPT ![c] = "wait"]
    /\ UNCHANGED <<engineVars, sessVars, session, retry_count, attempt, result, exch,
                   faults, histVars, todo, watchVars, budgetVars, envVars>>

\* while reload_in_progress.load() { sleep(100 ms) }: the loop is left when
\* the flag is read clear
GgaPoll(c) ==
    /\ pc[c] = "wait"
    /\ ~reload_in_progress
    /\ pc' = [pc EXCEPT ![c] = "pick"]
    /\ UNCHANGED <<engineVars, sessVars, session, retry_count, attempt, result, exch,
                   faults, histVars, todo, watchVars, budgetVars, envVars>>

\* let session = self.get_session().ok_or(NoClientAvailable)?
GgaPick(c) ==
    /\ pc[c] = "pick"
    /\ IF sessions_is_empty(sessions)
       THEN /\ pc' = [pc EXCEPT ![c] = "done"]
            /\ result' = [result EXCEPT ![c] = "NoClientAvailable"]
            /\ UNCHANGED <<session, session_index, picks>>
       ELSE /\ get_session(c)
            /\ pc' = [pc EXCEPT ![c] = "send"]
            /\ UNCHANGED result
    /\ retry_count' = [retry_count EXCEPT ![c] = 0]
    /\ attempt' = [attempt EXCEPT ![c] = 1]
    /\ UNCHANGED <<sessions, reload_in_progress, headers, sessVars, exch, faults,
                   histVars, todo, watchVars, budgetVars, envVars>>

\* call_api: take the api lock (first attempt), prepare_request and send
CallApiSend(c) ==
    LET s == session[c] IN
    /\ pc[c] = "send"
    /\ lock_available(api_lock[s], c)
    /\ api_lock' = [api_lock EXCEPT ![s] = c]
    /\ exch' = [exch EXCEPT ![c] = Sent("api", s)]
    /\ sent' = [sent EXCEPT ![c] = @ + 1]
    /\ pc' = [pc EXCEPT ![c] = "recv"]
    /\ UNCHANGED <<engineVars, token, account, user_id, lastIssued, loginOk, session,
                   retry_count,
                   attempt, result, faults, log, todo, watchVars, budgetVars, envVars>>

\* call_api: req.send() failed; try again under the lock, or give up after
\* the fourth attempt (the error leaves get_game_api through `?`)
CallApiFail(c) ==
    LET s == session[c] IN
    /\ pc[c] = "recv"
    /\ exch[c].state = "answered"
    /\ exch[c].resp = NetErr
    /\ exch' = [exch EXCEPT ![c] = NoExch]
    /\ IF call_api_continues(attempt[c])
       THEN /\ attempt' = [attempt EXCEPT ![c] = @ + 1]
            /\ pc' = [pc EXCEPT ![c] = "send"]
            /\ UNCHANGED <<result, sessVars>>
       ELSE /\ attempt' = [attempt EXCEPT ![c] = 1]
            /\ pc' = [pc EXCEPT ![c] = "done"]
            /\ result' = [result EXCEPT ![c] = "NetworkError"]
            /\ Release(token, [api_lock EXCEPT ![s] = "free"], loginOk, sessions, pc', user_id)
    /\ UNCHANGED <<engineVars, session, retry_count, faults, histVars, todo, watchVars,
                   budgetVars, envVars>>

\* call_api returns a response (token cell updated, lock dropped), then
\* get_game_api classifies it and matches on the outcome
CallApiRecv(c) ==
    LET s == session[c]
        e == exch[c]
        out == handle_response_ordered(e.resp)
        br == gga_branch(out)
    IN
    /\ pc[c] = "recv"
    /\ e.state = "answered"
    /\ e.resp # NetErr
    /\ exch' = [exch EXCEPT ![c] = NoExch]
    /\ attempt' = [attempt EXCEPT ![c] = 1]
    /\ log' = [log EXCEPT ![c] = Append(@, Entry("GET", e.resp.st, e.resp.ct, out, s))]
    /\ pc' = [pc EXCEPT ![c] =
                 CASE br = "login" -> "login_send"
                   [] br = "refresh_cookies" -> "refresh_cookies"
                   [] br = "refresh_version" -> "refresh_version"
                   [] OTHER -> "done"]
    /\ result' = [result EXCEPT ![c] =
                 CASE br = "return_ok" -> "Ok"
                   [] br = "return_err" -> out
                   [] OTHER -> @]
    /\ Release([token EXCEPT ![s] = update_session_token(@, e)],
               [api_lock EXCEPT ![s] = "free"], loginOk, sessions, pc', user_id)
    /\ UNCHANGED <<engineVars, session, retry_count, faults, sent, todo, watchVars,
                   budgetVars, envVars>>

\* get_game_api, SessionError arm: self.login(&session) sends its request
\* (login takes no lock)
GgaLoginSend(c) ==
    /\ pc[c] = "login_send"
    /\ exch' = [exch EXCEPT ![c] = Sent("login", session[c])]
    /\ sent' = [sent EXCEPT ![c] = @ + 1]
    /\ pc' = [pc EXCEPT ![c] = "login_recv"]
    /\ UNCHANGED <<engineVars, sessVars, session, retry_count, attempt, result, faults,
                   log, todo, watchVars, budgetVars, envVars>>

\* get_game_api, SessionError arm: login returned
GgaLoginRecv(c) ==
    LET s == session[c]
        e == exch[c]
        res == login_result(e)
        next == IF res = "Ok" THEN AfterRecovery(c) ELSE "done"
    IN
    /\ pc[c] = "login_recv"
    /\ e.state = "answered"
    /\ exch' = [exch EXCEPT ![c] = NoExch]
    /\ log' = [log EXCEPT ![c] = Append(@, Entry("LOGIN", e.resp.st, e.resp.ct, res, s))]
    /\ retry_count' = [retry_count EXCEPT ![c] = IF res = "Ok" THEN @ + 1 ELSE @]
    /\ pc' = [pc EXCEPT ![c] = next]
    /\ result' = [result EXCEPT ![c] =
                 IF res # "Ok" THEN "SessionError"
                 ELSE IF next = "done" THEN "MaxRetry" ELSE @]
    /\ Release([token EXCEPT ![s] = login_token(@, e)], api_lock,
               IF res = "Ok" THEN loginOk \cup {s} ELSE loginOk, sessions, pc',
               [user_id EXCEPT ![s] = login_user_id(@, e)])
    /\ UNCHANGED <<engineVars, session, attempt, faults, sent, todo, watchVars, budgetVars, envVars>>

\* get_game_api, UpgradeRequired and CookieExpired arms: refresh_version
\* reloads the version file into the headers, refresh_cookies fetches a new
\* Cookie header; either may fail and leave through `?`
GgaRefresh(c) ==
    /\ pc[c] \in {"refresh_version", "refresh_cookies"}
    /\ \E ok \in BOOLEAN :
          LET next == IF ok THEN AfterRecovery(c) ELSE "done" IN
          /\ ok \/ faults > 0
          /\ faults' = IF ok THEN faults ELSE faults - 1
          /\ headers' = IF ~ok THEN headers
                        ELSE IF pc[c] = "refresh_version"
                             THEN update_version_headers(headers, version_file)
                             ELSE [headers EXCEPT !.cookie = 1]
          /\ log' = [log EXCEPT ![c] =
                        Append(@, Entry("REFRESH",
                                        IF ok /\ pc[c] = "refresh_version"
                                        THEN version_file ELSE 0,
                                        "", IF ok THEN "Ok" ELSE "Err", session[c]))]
          /\ retry_count' = [retry_count EXCEPT ![c] = IF ok THEN @ + 1 ELSE @]
          /\ pc' = [pc EXCEPT ![c] = next]
          /\ result' = [result EXCEPT ![c] =
                        IF ~ok THEN "RefreshError"
                        ELSE IF next = "done" THEN "MaxRetry" ELSE @]
    /\ Release(token, api_lock, loginOk, sessions, pc', user_id)
    /\ UNCHANGED <<poolVars, reload_in_progress, session, attempt, exch, sent, todo,
                   watchVars, budgetVars, envVars>>

\* ------------------------------------------------------------------------
\* init and reload_accounts: the login loop over the parsed accounts
\* ------------------------------------------------------------------------
\* init: parse_accounts, before the loop
InitStart ==
    /\ pc[Loader] = "init"
    /\ todo' = SeqOf(dir)
    /\ pc' = [pc EXCEPT ![Loader] = "next"]
    /\ UNCHANGED <<engineVars, sessVars, session, retry_count, attempt, result, exch,
                   faults, histVars, watchVars, budgetVars, envVars>>

\* the loop body up to the await: an account without a user id is skipped on
\* a CP server; else AccountSession::new(account) and login, which returns
\* at once when the account cannot be dumped (the session is dropped and the
\* loop goes on) and sends the request otherwise
LoaderNext ==
    LET s == NewSid
        uid == parse_account_value(files[Head(todo)])
    IN
    /\ pc[Loader] = "next"
    /\ todo # <<>>
    /\ todo' = Tail(todo)
    /\ IF skip_account(region, uid) \/ dump_account(region, uid) # "Ok"
       THEN UNCHANGED <<account, user_id, session, exch, pc>>
       ELSE /\ account' = [account EXCEPT ![s] = Head(todo)]
            /\ user_id' = [user_id EXCEPT ![s] = uid]
            /\ session' = [session EXCEPT ![Loader] = s]
            /\ exch' = [exch EXCEPT ![Loader] = Sent("login", s)]
            /\ pc' = [pc EXCEPT ![Loader] = "login_recv"]
    /\ UNCHANGED <<engineVars, token, api_lock, lastIssued, loginOk, retry_count, attempt,
                   result, faults, histVars, watchVars, budgetVars, envVars>>

\* the loop body after the await: match self.login(&session).await
LoaderLoginRecv ==
    LET s == session[Loader]
        e == exch[Loader]
        res == login_result(e)
    IN
    /\ pc[Loader] = "login_recv"
    /\ e.state = "answered"
    /\ exch' = [exch EXCEPT ![Loader] = NoExch]
    /\ pc' = [pc EXCEPT ![Loader] = "next"]
    /\ IF push_on(res)
       THEN sessions' = Append(sessions, s) /\ picks' = <<>>
       ELSE UNCHANGED <<sessions, picks>>
    /\ Release([token EXCEPT ![s] = login_token(@, e)], api_lock,
               IF res = "Ok" THEN loginOk \cup {s} ELSE loginOk, sessions', pc',
               [user_id EXCEPT ![s] = login_user_id(@, e)])
    /\ UNCHANGED <<session_index, reload_in_progress, headers, session, retry_count,
                   attempt, result, faults, histVars, todo, watchVars, budgetVars, envVars>>

\* after the loop: reload_accounts stores false into the flag (init leaves
\* it false) and returns
LoaderEnd ==
    /\ pc[Loader] = "next"
    /\ todo = <<>>
    /\ reload_in_progress' = FALSE
    /\ pc' = [pc EXCEPT ![Loader] = "watch"]
    /\ UNCHANGED <<poolVars, headers, sessVars, session, retry_count, attempt, result,
                   exch, faults, histVars, todo, watchVars, budgetVars, envVars>>

\* ------------------------------------------------------------------------
\* start_file_watcher and the first half of reload_accounts
\* ------------------------------------------------------------------------
\* durations are counted in seconds up to the longest one the code compares
\* against, and stay there
Horizon == IF reload_drain > debounce_duration THEN reload_drain ELSE debounce_duration
Later(d) == IF d < Horizon THEN d + 1 ELSE d

\* the account directory changes (a descriptor appears, disappears or is
\* rewritten) and the PollWatcher puts the event on the channel
FileEvent ==
    /\ pc[Loader] # "init"
    /\ events > 0
    /\ events' = events - 1
    /\ \E d \in {dir} \cup {(dir \ {a}) \cup ({a} \ dir) : a \in Accounts} : dir' = d
    /\ rx' = Append(rx, Len(evlog) + 1)
    /\ evlog' = Append(evlog, [gap |-> sinceEvent, did |-> "queued"])
    /\ sinceEvent' = 0
    /\ UNCHANGED <<engineVars, sessVars, taskVars, faults, histVars, todo, elapsed, fetches,
                   envVars>>

\* the watcher thread takes the next event off the channel: debounce check,
\* else last_reload = now and reload_accounts starts (flag set, 3 s sleep)
WatcherRecv ==
    LET i == Head(rx) IN
    /\ pc[Loader] = "watch"
    /\ rx # <<>>
    /\ rx' = Tail(rx)
    /\ IF debounced(elapsed)
       THEN /\ evlog' = [evlog EXCEPT ![i].did = "skipped"]
            /\ UNCHANGED <<elapsed, reload_in_progress, pc>>
       ELSE /\ evlog' = [evlog EXCEPT ![i].did = "reload"]
            /\ elapsed' = 0
            /\ reload_in_progress' = TRUE
            /\ pc' = [pc EXCEPT ![Loader] = "reload_sleep"]
    /\ UNCHANGED <<poolVars, headers, sessVars, session, retry_count, attempt, result,
                   exch, faults, histVars, todo, dir, sinceEvent, budgetVars, envVars>>

\* reload_accounts after the sleep: clear the pool, reset the index, and
\* `let accounts = self.parse_accounts()?`, which returns early when the
\* directory cannot be listed
ReloadClear ==
    /\ pc[Loader] = "reload_sleep"
    /\ elapsed >= reload_drain
    /\ sessions' = <<>>
    /\ session_index' = 0
    /\ picks' = <<>>
    /\ \E readable \in BOOLEAN :
          IF readable
          THEN /\ todo' = SeqOf(dir)
               /\ pc' = [pc EXCEPT ![Loader] = "next"]
               /\ UNCHANGED result
          ELSE /\ todo' = <<>>
               /\ pc' = [pc EXCEPT ![Loader] = "watch"]
               /\ result' = [result EXCEPT ![Loader] = "ParseError"]
    /\ Release(token, api_lock, loginOk, sessions', pc', user_id)
    /\ UNCHANGED <<reload_in_progress, headers, session, retry_count, attempt, exch,
                   faults, histVars, watchVars, budgetVars, envVars>>

\* a second passes; time is followed as long as something can still read it
\* (the sleep of a reload, an event on the channel or still to come)
Tick ==
    /\ pc[Loader] # "init"
    /\ pc[Loader] = "reload_sleep" \/ rx # <<>> \/ events > 0
    /\ elapsed < Horizon \/ (events > 0 /\ sinceEvent < Horizon)
    /\ elapsed' = Later(elapsed)
    /\ sinceEvent' = IF events > 0 THEN Later(sinceEvent) ELSE sinceEvent
    /\ UNCHANGED <<engineVars, sessVars, taskVars, faults, histVars, todo, dir, rx, evlog,
                   budgetVars, envVars>>

\* ------------------------------------------------------------------------
\* Other users of a pooled session
\* ------------------------------------------------------------------------
\* MasterUpdater::check_update: get_session, then client.login(&session)
MasterStart ==
    /\ pc[Master] = "idle"
    /\ Running
    /\ IF sessions_is_empty(sessions)
       THEN /\ pc' = [pc EXCEPT ![Master] = "done"]
            /\ result' = [result EXCEPT ![Master] = "NoClientAvailable"]
            /\ UNCHANGED <<session, session_index, picks, exch>>
       ELSE /\ get_session(Master)
            /\ exch' = [exch EXCEPT ![Master] =
                           Sent("login", sessions[get_session_idx(session_index,
                                                                  Len(sessions)) + 1])]
            /\ pc' = [pc EXCEPT ![Master] = "login_recv"]
            /\ UNCHANGED result
    /\ UNCHANGED <<sessions, reload_in_progress, headers, sessVars, retry_count, attempt,
                   faults, histVars, todo, watchVars, budgetVars, envVars>>

MasterLoginRecv ==
    LET s == session[Master]
        e == exch[Master]
        res == login_result(e)
    IN
    /\ pc[Master] = "login_recv"
    /\ e.state = "answered"
    /\ exch' = [exch EXCEPT ![Master] = NoExch]
    /\ pc' = [pc EXCEPT ![Master] = "done"]
    /\ result' = [result EXCEPT ![Master] = res]
    /\ Release([token EXCEPT ![s] = login_token(@, e)], api_lock,
               IF res = "Ok" THEN loginOk \cup {s} ELSE loginOk, sessions, pc',
               [user_id EXCEPT ![s] = login_user_id(@, e)])
    /\ UNCHANGED <<engineVars, session, retry_count, attempt, faults, histVars, todo,
                   watchVars, budgetVars, envVars>>

\* get_cp_mysekai_image: get_session, prepare_request and send; no wait on
\* the reload flag, no lock
ImageStart ==
    /\ pc[Image] = "idle"
    /\ Running
    /\ fetches > 0
    /\ fetches' = fetches - 1
    /\ IF sessions_is_empty(sessions)
       THEN /\ result' = [result EXCEPT ![Image] = "NoClientAvailable"]
            /\ UNCHANGED <<session, session_index, picks, exch, pc>>
       ELSE /\ get_session(Image)
            /\ exch' = [exch EXCEPT ![Image] =
                           Sent("image", sessions[get_session_idx(session_index,
                                                                  Len(sessions)) + 1])]
            /\ pc' = [pc EXCEPT ![Image] = "recv"]
            /\ UNCHANGED result
    /\ UNCHANGED <<sessions, reload_in_progress, headers, sessVars, retry_count, attempt,
                   faults, histVars, todo, watchVars, events, envVars>>

\* get_cp_mysekai_image: the response (the token cell is not touched)
ImageRecv ==
    LET e == exch[Image] IN
    /\ pc[Image] = "recv"
    /\ e.state = "answered"
    /\ exch' = [exch EXCEPT ![Image] = NoExch]
    /\ pc' = [pc EXCEPT ![Image] = "idle"]
    /\ result' = [result EXCEPT ![Image] =
                     IF e.resp = NetErr THEN "NetworkError"
                     ELSE IF e.resp.st = 200 THEN "Ok" ELSE "Unknown"]
    /\ Release(token, api_lock, loginOk, sessions, pc', user_id)
    /\ UNCHANGED <<engineVars, session, retry_count, attempt, faults, histVars, todo,
                   watchVars, budgetVars, envVars>>

\* ------------------------------------------------------------------------
\* Specifications
\* ------------------------------------------------------------------------
LoaderInit == InitStart \/ LoaderNext \/ LoaderLoginRecv \/ LoaderEnd
Gga(C) == \E c \in C :
    \/ GgaEnter(c) \/ GgaPoll(c) \/ GgaPick(c)
    \/ CallApiSend(c) \/ CallApiFail(c) \/ CallApiRecv(c)
    \/ GgaLoginSend(c) \/ GgaLoginRecv(c) \/ GgaRefresh(c)
Upstream == \E p \in Procs : UpstreamAnswer(p)
Watcher == FileEvent \/ WatcherRecv \/ ReloadClear \/ Tick

\* one caller against a static pool
InitRetry == InitWith(SUBSET {1}, RetryFaults, 0, 0)
NextRetry == LoaderInit \/ Upstream \/ Gga({"c1"})
RetrySpec == InitRetry /\ [][NextRetry]_vars

\* two callers and the master updater sharing one session
InitConc == InitWith({{1}}, ConcFaults, 0, 0)
NextConc == LoaderInit \/ Upstream \/ Gga(Callers) \/ MasterStart \/ MasterLoginRecv
ConcSpec == InitConc /\ [][NextConc]_vars

\* the file watcher reloading the pool under one caller
\* (the upstream answers well, so the recovery arms of the caller stay unused)
InitWatch == InitWith(SUBSET Accounts, 0, 0, MaxEvents)
NextWatch ==
    \/ LoaderInit \/ Watcher \/ Upstream
    \/ GgaEnter("c1") \/ GgaPoll("c1") \/ GgaPick("c1")
    \/ CallApiSend("c1") \/ CallApiRecv("c1")
WatchSpec == InitWatch /\ [][NextWatch]_vars

\* the pool under reloads and image fetches
InitPool == InitWith(SUBSET Accounts, PoolFaults, MaxFetches, MaxReloads)
NextPool == LoaderInit \/ Watcher \/ Upstream \/ ImageStart \/ ImageRecv
PoolSpec == InitPool /\ [][NextPool]_vars

\* the same, with every step that stays enabled eventually taken: each task
\* runs, and the upstream answers every request
FairRetrySpec ==
    RetrySpec /\ WF_vars(LoaderInit) /\ WF_vars(Upstream) /\ WF_vars(Gga({"c1"}))

\* ------------------------------------------------------------------------
\* Properties
\* ------------------------------------------------------------------------
\* the entries of a call's history with the given operation, in order
Only(l, op) == SelectSeq(l, LAMBDA x : x.op = op)
Ops(l) == [i \in DOMAIN l |-> l[i].op]
Last(l) == l[Len(l)]
OctetGet(x, st) == x.op = "GET" /\ x.st = st /\ x.ct = "octet-stream"

\* C1: a get_game_api call whose GETs are answered 403, 403, 200 (all
\* octet-stream, the 200 with a body that decodes) and whose every login
\* succeeds has returned Ok after exactly the exchanges GET, login, GET,
\* login, GET, all of them on the one session it picked.
C1_RecoveryOrdering ==
    \A c \in Callers :
        LET gets == Only(log[c], "GET")
            logins == Only(log[c], "LOGIN")
        IN ( /\ Len(gets) = 3
             /\ OctetGet(gets[1], 403) /\ OctetGet(gets[2], 403)
             /\ OctetGet(gets[3], 200) /\ gets[3].out = "Ok"
             /\ \A i \in DOMAIN logins : logins[i].out = "Ok" )
           => /\ Ops(log[c]) = <<"GET", "LOGIN", "GET", "LOGIN", "GET">>
              /\ \A i \in DOMAIN log[c] : log[c][i].sid = session[c]
              /\ pc[c] = "done" /\ result[c] = "Ok"
              /\ exch[c] = NoExch

C1_Witness ==
    /\ pc["c1"] = "done" /\ result["c1"] = "Ok"
    /\ Len(log["c1"]) = 5
    /\ OctetGet(log["c1"][1], 403) /\ log["c1"][2].out = "Ok"
    /\ OctetGet(log["c1"][3], 403) /\ log["c1"][4].out = "Ok"
    /\ OctetGet(log["c1"][5], 200)

\* a GET answered 503 with an octet-stream or binary Content-Type
Maintenance(x) == x.op = "GET" /\ x.st = 503 /\ IsBinary(x.ct)

\* C2: once a GET of a get_game_api call has been answered 503 with an
\* octet-stream or binary Content-Type, the call has returned
\* UnderMaintenance, and it sends nothing any more: no GET, no login, no
\* refresh follows that answer.
C2_MaintenanceNotRetried ==
    /\ [](\A c \in Callers : \A i \in DOMAIN log[c] :
            Maintenance(log[c][i]) =>
                /\ i = Len(log[c])
                /\ pc[c] = "done" /\ result[c] = "UnderMaintenance"
                /\ exch[c] = NoExch)
    /\ [][\A c \in Callers :
            (log[c] # <<>> /\ Maintenance(Last(log[c]))) =>
                (log'[c] = log[c] /\ sent'[c] = sent[c] /\ headers' = headers)]_vars

\* the 503 is the first answer, to the only request the call ever sent
C2_Witness ==
    /\ Len(log["c1"]) = 1 /\ Maintenance(log["c1"][1])
    /\ sent["c1"] = 1
    /\ result["c1"] = "UnderMaintenance"

\* a round that ended in a locally recovered error: the GET at position i of
\* the history was answered 403 or 426 and the login or refresh after it
\* succeeded
Recovered(l, i) ==
    /\ i + 1 <= Len(l)
    /\ l[i].op = "GET" /\ l[i].out \in {"SessionError", "UpgradeRequired"}
    /\ l[i + 1].op = (IF l[i].out = "SessionError" THEN "LOGIN" ELSE "REFRESH")
    /\ l[i + 1].out = "Ok"

\* C3: a get_game_api call has at most four GET exchanges; when four rounds
\* in a row ended in a locally recovered error the call has returned
\* NetworkError("Max retry attempts reached"), which it returns in no other
\* case; and a call that has read the reload flag clear returns, given that
\* every request is answered or fails.
C3_FourRounds ==
    /\ [](\A c \in Callers :
            /\ Len(Only(log[c], "GET")) <= 4
            /\ (Len(log[c]) = 8 /\ \A k \in 1..4 : Recovered(log[c], 2 * k - 1))
                  => (pc[c] = "done" /\ result[c] = "MaxRetry")
            /\ result[c] = "MaxRetry"
                  => (Len(log[c]) = 8 /\ \A k \in 1..4 : Recovered(log[c], 2 * k - 1)))
    /\ ((pc["c1"] = "pick") ~> (pc["c1"] = "done"))

\* four recovered rounds, of both kinds
C3_Witness ==
    /\ result["c1"] = "MaxRetry"
    /\ Len(Only(log["c1"], "GET")) = 4
    /\ Only(log["c1"], "LOGIN") # <<>>
    /\ Only(log["c1"], "REFRESH") # <<>>

\* call_api of caller c is between its first send attempt and the receipt of
\* the response or of the last failed attempt
InCallApi(c) == pc[c] = "recv" \/ (pc[c] = "send" /\ attempt[c] > 1)

\* C4: a caller that is between the first send attempt of a call_api and the
\* receipt of its response (or of its last failed attempt) holds the api lock
\* of its session, so no two call_api invocations on one session are in that
\* interval together.
C4_CallApiSerialized ==
    /\ \A c \in Callers : InCallApi(c) => api_lock[session[c]] = c
    /\ \A c, d \in Callers :
          (c # d /\ InCallApi(c) /\ InCallApi(d)) => session[c] # session[d]

\* one caller has its request in flight, the other waits for the same lock
C4_Witness ==
    /\ pc["c1"] = "recv" /\ pc["c2"] = "send"
    /\ session["c1"] = session["c2"]
    /\ api_lock[session["c1"]] = "c1"

\* task p has an exchange on session s in flight: sent, and the response not
\* yet received
InFlight(p, s) == exch[p].state # "none" /\ exch[p].sid = s

\* C5: no session has two upstream exchanges in flight at the same time,
\* whichever operations issued them (call_api, a login, an image fetch).
C5_OneExchangePerSession ==
    \A s \in Sids : Cardinality({p \in Procs : InFlight(p, s)}) <= 1

\* C6: whenever no exchange is in flight on a session, the token stored in
\* its cell is the one the upstream issued with its most recent response
\* for that session.
C6_StoredTokenIsLatest ==
    \A s \in Sids :
        (account[s] # 0 /\ \A p \in Procs : ~InFlight(p, s)) => token[s] = lastIssued[s]

\* C7: when no reload_accounts invocation is executing (the watcher thread is
\* back in its receive loop), the reload-in-progress flag is clear: every
\* invocation has cleared it by the time it returns, whatever the outcome of
\* reading the account directory.
C7_ReloadClearsFlag == pc[Loader] = "watch" => ~reload_in_progress

\* C8: of two events that reach the watcher less than 2 s apart, the first
\* of which started a reload, the second starts none.
C8_DebounceOneReload ==
    \A i \in DOMAIN evlog :
        (i + 1 <= Len(evlog) /\ evlog[i].did = "reload"
           /\ evlog[i + 1].gap < debounce_duration)
        => evlog[i + 1].did # "reload"

\* C9: while the pool stays as it is, with N >= 1 sessions, any K*N
\* consecutive invocations of get_session return each session of the pool
\* exactly K times.
C9_RoundRobin ==
    LET N == Len(sessions) IN
    N >= 1 =>
        \A K \in 1..Len(picks) : \A first \in 1..Len(picks) :
            first + K * N - 1 <= Len(picks) =>
                \A s \in Range(sessions) :
                    Cardinality({i \in first..(first + K * N - 1) : picks[i] = s}) = K

\* two rounds over a pool of two
C9_Witness == Len(sessions) = 2 /\ Len(picks) = 4

\* C10: every session in the pool has had a login return Ok, and the pool
\* grows only by the session whose login, in the loop of init or
\* reload_accounts, has just returned Ok: a session whose login failed there
\* is never pushed.
C10_PoolAfterLogin ==
    /\ [](Range(sessions) \subseteq loginOk)
    /\ [][Len(sessions') > Len(sessions) =>
            /\ pc[Loader] = "login_recv"
            /\ login_result(exch[Loader]) = "Ok"
            /\ sessions' = Append(sessions, session[Loader])]_vars

\* a reload over two descriptors has ended with one session: the login of
\* the other failed
C10_Witness ==
    /\ pc[Loader] = "watch" /\ ~reload_in_progress
    /\ \E i \in DOMAIN evlog : evlog[i].did = "reload"
    /\ Cardinality(dir) = 2 /\ Len(sessions) = 1
    /\ faults = 0 /\ fetches = MaxFetches

\* ------------------------------------------------------------------------
\* A caller whose re-login fails, with the master updater picking afterwards
\* ------------------------------------------------------------------------
\* faulty answers in such a run: the 403 and the failed login
AuthFaults == 2
InitAuth == InitWith({{1}}, AuthFaults, 0, 0)
NextAuth == LoaderInit \/ Upstream \/ Gga({"c1"}) \/ MasterStart \/ MasterLoginRecv
AuthSpec == InitAuth /\ [][NextAuth]_vars

\* the re-login of caller c's get_game_api has failed on session s
ReloginFailed(c, s) ==
    /\ log[c] # <<>>
    /\ Last(log[c]).op = "LOGIN" /\ Last(log[c]).out # "Ok"
    /\ Last(log[c]).sid = s

\* C11: once the re-login of a get_game_api call has failed on a session, no
\* later get_session returns that session.
C11_FailedSessionDropped ==
    [][\A c \in Callers : \A s \in Sids :
          ReloginFailed(c, s) =>
              \A p \in Procs : session'[p] # session[p] => session'[p] # s]_vars

\* ------------------------------------------------------------------------
\* The pure functions of the program, applied to an argument
\* ------------------------------------------------------------------------
\* everything but the argument and the value of the function applied
restVars == <<engineVars, sessVars, taskVars, faults, histVars, todo, watchVars,
              budgetVars, version_file, region, files, manifest_file, updater>>

\* the engine idle, and a function about to be applied to an argument of A
InitApply(A) ==
    /\ InitEngine({{}}, 0, 0, 0)
    /\ region = "cp"
    /\ files = [a \in Accounts |-> GoodFile]
    /\ input \in A
    /\ output = <<>>

\* a status outside SekaiHttpStatus, below and above the known ones
StatusCodes == KnownStatuses \cup {401, 502}
\* the classes of Content-Type the classifiers tell apart, and one they do not
ContentTypes == {"octet-stream", "binary", "xml", "json"}
AnyResponses ==
    [st : StatusCodes, ct : ContentTypes, body : {"map", "garbage"},
     hdr : {FALSE}, btok : {FALSE}]

\* handle_response_ordered(resp), as a game call classifies a response
ClassifyOrdered ==
    /\ output = <<>>
    /\ output' = <<"ordered", handle_response_ordered(input)>>
    /\ UNCHANGED <<restVars, input>>

\* handle_response(resp), as login classifies a response
ClassifyTyped ==
    /\ output = <<>>
    /\ output' = <<"typed", handle_response(input)>>
    /\ UNCHANGED <<restVars, input>>

InitClassify == InitApply(AnyResponses)
NextClassify == ClassifyOrdered \/ ClassifyTyped
ClassifySpec == InitClassify /\ [][NextClassify]_vars

\* the outcome the response table gives for a Content-Type class and a status
TableOutcome(r) ==
    IF r.ct \in {"octet-stream", "binary"}
    THEN CASE r.st \in {200, 400, 404, 409} ->
                 IF r.body = "map" THEN "Ok" ELSE "CryptoError"
           [] r.st = 403 -> "SessionError"
           [] r.st = 426 -> "UpgradeRequired"
           [] r.st = 503 -> "UnderMaintenance"
           [] OTHER -> "Unknown"
    ELSE CASE r.st = 503 -> "UnderMaintenance"
           [] r.st = 403 /\ r.ct = "xml" -> "CookieExpired"
           [] OTHER -> "Unknown"

\* C12: for every upstream response, both classifiers yield the outcome of
\* the response table for its Content-Type class and status.
C12_ClassifiersFollowTable ==
    output # <<>> => output[2] = TableOutcome(input)

\* a GET answered 403 with an xml Content-Type
CookieAnswer(x) == x.op = "GET" /\ x.st = 403 /\ x.ct = "xml"

\* C13: with require_cookies true, a get_game_api call whose GET was answered
\* 403 with an xml Content-Type goes on to refresh the cookie (and from there
\* to the next round) instead of returning an error.
C13_CookieRefreshedOnExpiry ==
    require_cookies =>
        \A c \in Callers : \A i \in DOMAIN log[c] :
            CookieAnswer(log[c][i]) =>
                IF i = Len(log[c]) THEN pc[c] = "refresh_cookies"
                ELSE log[c][i + 1].op = "REFRESH"

\* ------------------------------------------------------------------------
\* A caller while the version manifest is rewritten
\* ------------------------------------------------------------------------
\* versions the manifest goes through, and faulty answers, in such a run
MaxVersion == 3
VersionFaults == 2

\* the app-hash and master updaters write a new version to the manifest file
ManifestWrite ==
    /\ Running
    /\ version_file < MaxVersion
    /\ version_file' = version_file + 1
    /\ UNCHANGED <<engineVars, sessVars, taskVars, faults, histVars, todo, watchVars,
                   budgetVars, region, files, input, output, manifest_file, updater>>

InitVersion == InitWith({{1}}, VersionFaults, 0, 0)
NextVersion == LoaderInit \/ Upstream \/ Gga({"c1"}) \/ ManifestWrite
VersionSpec == InitVersion /\ [][NextVersion]_vars

\* the refresh that followed a GET answered 426, at position i of a history
VersionRefresh(l, i) ==
    /\ i >= 2
    /\ l[i].op = "REFRESH"
    /\ l[i - 1].op = "GET" /\ l[i - 1].st = 426 /\ l[i - 1].out = "UpgradeRequired"

IdentityFaults == 1
\* changes of the account directory that may follow
IdentityEvents == 1

\* both kinds of server, every content of the descriptors, init and one reload
InitIdentity ==
    /\ InitEngine({Accounts}, IdentityFaults, 0, IdentityEvents)
    /\ region \in Regions
    /\ files \in [Accounts -> AccountFiles]
    /\ input = <<>>
    /\ output = <<>>
NextIdentity == LoaderInit \/ Upstream \/ Watcher
IdentitySpec == InitIdentity /\ [][NextIdentity]_vars

\* the user id extraction from the token of a descriptor yielded no id
NoTokenId(f) == f.tok \in {"none", ""}

\* the loader is at an account that has no user id after the derivation
AtEmptyAccount ==
    /\ pc[Loader] = "next"
    /\ todo # <<>>
    /\ parse_account_value(files[Head(todo)]) = ""

MaxVersionLen == 5
\* version strings: digits and dots, well formed or not
VersionStrings == UNION {[1..n -> {"0", "1", "."}] : n \in 0..MaxVersionLen}

\* str::split('.'): the pieces between the dots, at least one
RECURSIVE split(_)
split(v) ==
    IF v = <<>> THEN << <<>> >>
    ELSE LET rest == split(Tail(v)) IN
         IF Head(v) = "." THEN << <<>> >> \o rest
         ELSE << <<Head(v)>> \o Head(rest) >> \o Tail(rest)

\* str::parse::<u32> of a piece of digits: its decimal value, -1 for the
\* empty piece (an Err)
RECURSIVE parse_u32(_)
parse_u32(s) ==
    IF s = <<>> THEN -1
    ELSE LET d == IF s[Len(s)] = "0" THEN 0 ELSE 1 IN
         IF Len(s) = 1 THEN d ELSE 10 * parse_u32(SubSeq(s, 1, Len(s) - 1)) + d

\* compare_version: the closure parse_segments (collect stops at the first Err)
parse_segments(v) ==
    LET pieces == split(v) IN
    [ok |-> \A i \in DOMAIN pieces : parse_u32(pieces[i]) >= 0,
     segs |-> [i \in DOMAIN pieces |-> parse_u32(pieces[i])]]

\* (a missing segment that counts as one)
segment_one(segs, i) == IF i <= Len(segs) THEN segs[i] ELSE 1

\* compare_version: segs.get(i).copied().unwrap_or(0)
segment(segs, i) == IF i <= Len(segs) THEN segs[i] ELSE 0

\* compare_version: the loop from position i on, and Ok(false) after it
RECURSIVE compare_from(_, _, _)
compare_from(new, cur, i) ==
    IF i > Len(new) /\ i > Len(cur) THEN "false"
    ELSE IF segment(new, i) > segment(cur, i) THEN "true"
    ELSE IF segment(new, i) < segment(cur, i) THEN "false"
    ELSE compare_from(new, cur, i + 1)

compare_version(new_version, current_version) ==
    LET new == parse_segments(new_version)
        cur == parse_segments(current_version)
    IN IF ~new.ok \/ ~cur.ok THEN "Err" ELSE compare_from(new.segs, cur.segs, 1)

\* a caller applies compare_version to a pair of version strings
CompareVersion ==
    /\ output = <<>>
    /\ output' = <<compare_version(input[1], input[2])>>
    /\ UNCHANGED <<restVars, input>>

CompareSpec == InitApply(VersionStrings \X VersionStrings) /\ [][CompareVersion]_vars

\* the value of segment i of a version string, zero beyond its last segment
PaddedSegment(v, i) ==
    LET pieces == split(v) IN IF i <= Len(pieces) THEN parse_u32(pieces[i]) ELSE 0
\* every segment of a version string is an unsigned number
Unsigned(v) == \A i \in DOMAIN split(v) : parse_u32(split(v)[i]) >= 0
\* the first position where the padded segments differ has the greater one in a
FirstDifferenceGreater(a, b) ==
    \E i \in 1..MaxVersionLen :
        /\ PaddedSegment(a, i) > PaddedSegment(b, i)
        /\ \A j \in 1..(i - 1) : PaddedSegment(a, j) = PaddedSegment(b, j)

\* C16: for version strings a and b of unsigned segments, compare_version(a, b)
\* is true exactly when the first position at which the zero-padded segments
\* differ has the greater segment in a (so it is false for equal versions and
\* for versions that differ by trailing zero segments only), and
\* compare_version(a, b) and compare_version(b, a) are never both true.
C16_CompareVersion ==
    (output # <<>> /\ Unsigned(input[1]) /\ Unsigned(input[2])) =>
        /\ output[1] \in {"true", "false"}
        /\ output[1] = "true" <=> FirstDifferenceGreater(input[1], input[2])
        /\ (\A i \in 1..MaxVersionLen :
               PaddedSegment(input[1], i) = PaddedSegment(input[2], i))
              => output[1] = "false"
        /\ ~(output[1] = "true" /\ compare_version(input[2], input[1]) = "true")

\* "1.1.0" was compared with "1.1": not newer
C16_Witness ==
    /\ input = << <<"1", ".", "1", ".", "0">>, <<"1", ".", "1">> >>
    /\ output = <<"false">>

\* ------------------------------------------------------------------------
\* The codec: MessagePack, PKCS7 and AES-128-CBC (SekaiCryptor)
\* ------------------------------------------------------------------------
\* the AES block size pack and unpack pad and check with
block_size == 16

\* MessagePack values as tagged tuples: <<"nil">>, <<"bool", b>>, <<"int", n>>,
\* <<"str", bytes>>, <<"arr", values>>, <<"map", pairs <<key, value>> >>.
\* rmp_serde::to_vec picks the shortest format of each value
RECURSIVE encode(_), encode_all(_)
encode(v) ==
    CASE v[1] = "nil" -> <<192>>
      [] v[1] = "bool" -> IF v[2] THEN <<195>> ELSE <<194>>
      [] v[1] = "int" -> IF v[2] >= 0 /\ v[2] <= 127 THEN <<v[2]>>
                         ELSE IF v[2] < 0 THEN <<256 + v[2]>>
                         ELSE <<204, v[2]>>
      [] v[1] = "str" -> <<160 + Len(v[2])>> \o v[2]
      [] v[1] = "arr" -> <<144 + Len(v[2])>> \o encode_all(v[2])
      [] v[1] = "map" -> <<128 + Len(v[2])>> \o
                            encode_all([i \in 1..(2 * Len(v[2])) |->
                                          v[2][(i + 1) \div 2][2 - (i % 2)]])
encode_all(vs) == IF vs = <<>> THEN <<>> ELSE encode(Head(vs)) \o encode_all(Tail(vs))

\* the MessagePack reader: <<"Ok", value, the bytes after it>> or <<"Err">>
\* (decode_all reads n values in a row)
RECURSIVE decode(_), decode_all(_, _)
decode(bytes) ==
    IF bytes = <<>> THEN <<"Err">>
    ELSE LET b == Head(bytes)
             rest == Tail(bytes)
         IN CASE b <= 127 -> <<"Ok", <<"int", b>>, rest>>
              [] b >= 128 /\ b <= 143 ->
                    LET kv == decode_all(rest, 2 * (b - 128)) IN
                    IF kv[1] = "Err" THEN kv
                    ELSE <<"Ok", <<"map", [i \in 1..(b - 128) |->
                                             <<kv[2][2 * i - 1], kv[2][2 * i]>>]>>, kv[3]>>
              [] b >= 144 /\ b <= 159 ->
                    LET it == decode_all(rest, b - 144) IN
                    IF it[1] = "Err" THEN it ELSE <<"Ok", <<"arr", it[2]>>, it[3]>>
              [] b >= 160 /\ b <= 191 ->
                    IF Len(rest) < b - 160 THEN <<"Err">>
                    ELSE <<"Ok", <<"str", SubSeq(rest, 1, b - 160)>>,
                           SubSeq(rest, b - 159, Len(rest))>>
              [] b = 192 -> <<"Ok", <<"nil">>, rest>>
              [] b \in {194, 195} -> <<"Ok", <<"bool", b = 195>>, rest>>
              [] b = 204 -> IF rest = <<>> THEN <<"Err">>
                            ELSE <<"Ok", <<"int", Head(rest)>>, Tail(rest)>>
              [] b >= 224 -> <<"Ok", <<"int", b - 256>>, rest>>
              [] OTHER -> <<"Err">>
decode_all(bytes, n) ==
    IF n = 0 THEN <<"Ok", <<>>, bytes>>
    ELSE LET first == decode(bytes) IN
         IF first[1] = "Err" THEN first
         ELSE LET others == decode_all(first[3], n - 1) IN
              IF others[1] = "Err" THEN others
              ELSE <<"Ok", <<first[2]>> \o others[2], others[3]>>

\* (a padding that adds nothing to whole blocks)
pkcs7_pad_short(data, size) ==
    data \o [i \in 1..((size - (Len(data) % size)) % size) |-> (size - (Len(data) % size)) % size]

\* pkcs7_pad: padding_len bytes, each padding_len as u8
pkcs7_pad(data, size) ==
    LET padding_len == size - (Len(data) % size)
    IN data \o [i \in 1..padding_len |-> padding_len % 256]

\* pkcs7_unpad: <<"Ok", data without its padding>> or the CryptoError
pkcs7_unpad(data) ==
    IF data = <<>> THEN <<"CryptoError", "Empty data for unpadding">>
    ELSE LET padding_len == data[Len(data)] IN
         IF padding_len = 0 \/ padding_len > 16 \/ padding_len > Len(data)
         THEN <<"CryptoError", "Invalid PKCS7 padding">>
         ELSE IF \E i \in (Len(data) - padding_len + 1)..Len(data) : data[i] # padding_len
         THEN <<"CryptoError", "Invalid PKCS7 padding bytes">>
         ELSE <<"Ok", SubSeq(data, 1, Len(data) - padding_len)>>

\* bitwise exclusive or of two bytes
RECURSIVE xor(_, _)
xor(a, b) == IF a = 0 /\ b = 0 THEN 0
             ELSE ((a + b) % 2) + 2 * xor(a \div 2, b \div 2)

\* Aes128 on one block: a keyed permutation of the blocks stands for it (the
\* bytes rotate by one place and the key is added), with its inverse
encrypt_block(key, b) == [i \in 1..block_size |-> (b[(i % block_size) + 1] + key[i]) % 256]
decrypt_block(key, c) ==
    [j \in 1..block_size |->
        LET i == ((j + block_size - 2) % block_size) + 1 IN (c[i] - key[i] + 256) % 256]

\* (a decryption that forgets the chaining)
RECURSIVE cbc_decrypt_unchained(_, _, _)
cbc_decrypt_unchained(key, prev, data) ==
    IF data = <<>> THEN <<>>
    ELSE LET p == decrypt_block(key, SubSeq(data, 1, block_size))
         IN [i \in 1..block_size |-> xor(p[i], prev[i])]
            \o cbc_decrypt_unchained(key, prev, SubSeq(data, block_size + 1, Len(data)))

\* cbc::Encryptor / cbc::Decryptor without padding: each plain block is
\* xor-ed with the cipher block before it (the IV for the first)
RECURSIVE cbc_encrypt(_, _, _), cbc_decrypt(_, _, _)
cbc_encrypt(key, prev, data) ==
    IF data = <<>> THEN <<>>
    ELSE LET c == encrypt_block(key, [i \in 1..block_size |-> xor(data[i], prev[i])])
         IN c \o cbc_encrypt(key, c, SubSeq(data, block_size + 1, Len(data)))
cbc_decrypt(key, prev, data) ==
    IF data = <<>> THEN <<>>
    ELSE LET c == SubSeq(data, 1, block_size)
             p == decrypt_block(key, c)
         IN [i \in 1..block_size |-> xor(p[i], prev[i])]
            \o cbc_decrypt(key, c, SubSeq(data, block_size + 1, Len(data)))

\* SekaiCryptor::pack of a value under a codec [key, iv]
pack(codec, v) == cbc_encrypt(codec.key, codec.iv, pkcs7_pad(encode(v), block_size))

\* SekaiCryptor::unpack and unpack_ordered up to the unpadding: <<"Ok", the
\* unpadded bytes>> or the CryptoError
decrypt_unpad(codec, data) ==
    IF data = <<>> THEN <<"CryptoError", "Content cannot be empty">>
    ELSE IF Len(data) % block_size # 0
    THEN <<"CryptoError", "Content length is not a multiple of AES block size">>
    ELSE pkcs7_unpad(cbc_decrypt(codec.key, codec.iv, data))

\* SekaiCryptor::unpack: <<"Ok", value>>, the CryptoError, or the ParseError
\* rmp_serde::from_slice converts to
unpack(codec, data) ==
    LET plain == decrypt_unpad(codec, data) IN
    IF plain[1] # "Ok" THEN plain
    ELSE LET d == decode(plain[2]) IN
         IF d[1] = "Ok" THEN <<"Ok", d[2]>> ELSE <<"ParseError", "MsgPack decode error">>

\* Integer's Display: the decimal form, as character codes
RECURSIVE to_string(_)
to_string(n) ==
    IF n < 0 THEN <<45>> \o to_string(0 - n)
    ELSE IF n < 10 THEN <<48 + n>>
    ELSE to_string(n \div 10) \o <<48 + (n % 10)>>

\* (a conversion that knows string keys only)
map_key_strings_only(k) ==
    IF k[1] = "str" THEN <<"Some", k[2]>> ELSE <<"None">>

\* rmpv_to_json, Value::Map arm: the key of an entry, None for `_ => continue`
map_key(k) ==
    CASE k[1] = "str" -> <<"Some", k[2]>>
      [] k[1] = "int" -> <<"Some", to_string(k[2])>>
      [] OTHER -> <<"None">>

\* serde_json::Map::insert on a map that keeps the order of insertion: a new
\* key goes last, a key already there keeps its place and takes the value
map_insert(m, key, val) ==
    IF \E i \in DOMAIN m : m[i][1] = key
    THEN [i \in DOMAIN m |-> IF m[i][1] = key THEN <<key, val>> ELSE m[i]]
    ELSE Append(m, <<key, val>>)

\* rmpv_to_json for the values without floats, binaries and extensions: JSON
\* values as tagged tuples, an object as the sequence of its <<key, value>>
RECURSIVE rmpv_to_json(_), insert_all(_, _)
rmpv_to_json(v) ==
    CASE v[1] = "nil" -> <<"null">>
      [] v[1] = "bool" -> v
      [] v[1] = "int" -> <<"number", v[2]>>
      [] v[1] = "str" -> <<"string", v[2]>>
      [] v[1] = "arr" -> <<"array", [i \in DOMAIN v[2] |-> rmpv_to_json(v[2][i])]>>
      [] v[1] = "map" -> <<"object", insert_all(v[2], <<>>)>>
insert_all(pairs, m) ==
    IF pairs = <<>> THEN m
    ELSE LET key == map_key(Head(pairs)[1]) IN
         IF key[1] = "None" THEN insert_all(Tail(pairs), m)
         ELSE insert_all(Tail(pairs), map_insert(m, key[2], rmpv_to_json(Head(pairs)[2])))

\* SekaiCryptor::unpack_ordered: <<"Ok", the entries in order>> or the CryptoError
unpack_ordered(codec, data) ==
    LET plain == decrypt_unpad(codec, data) IN
    IF plain[1] # "Ok" THEN plain
    ELSE LET d == decode(plain[2]) IN
         IF d[1] # "Ok" THEN <<"CryptoError", "MsgPack decode error">>
         ELSE LET json == rmpv_to_json(d[2]) IN
              IF json[1] = "object" THEN <<"Ok", json[2]>>
              ELSE <<"CryptoError", "Expected object at top level">>

\* the longest string among the values packed, the longest byte string
\* padded, and the most entries of a map decoded in order
MaxStrLen == 16
MaxBytes == 33
MaxEntries == 3

\* the key and the IV of the codec's own test, either way round
Blocks == {[i \in 1..block_size |-> 17 * (i - 1)], [i \in 1..block_size |-> 17 * (block_size - i)]}
Codecs == [key : Blocks, iv : Blocks]

\* the values packed: scalars of every format, and arrays and maps of them
Scalars ==
    {<<"nil">>, <<"bool", FALSE>>, <<"bool", TRUE>>}
    \cup {<<"int", n>> : n \in {0, 127, 128, 255, -1, -32}}
    \cup {<<"str", [i \in 1..n |-> 97]>> : n \in 0..MaxStrLen}
Values ==
    Scalars
    \cup {<<"arr", <<x, y>> >> : x \in Scalars, y \in {<<"nil">>, <<"int", 128>>}}
    \cup {<<"map", << <<<<"str", <<97>> >>, x>>, <<<<"str", <<98>> >>, y>> >> >> :
             x \in Scalars, y \in {<<"nil">>, <<"str", <<97, 98>> >>}}

\* the keys of the maps decoded in order: "a", "b", "c", "1", 1, 12, true
MapKeys == {<<"str", <<c>> >> : c \in {97, 98, 99, 49}}
           \cup {<<"int", 1>>, <<"int", 12>>, <<"bool", TRUE>>}
\* maps of up to MaxEntries entries under any keys in any order, entry i
\* holding the value i
OrderedMaps ==
    {<<"map", [i \in DOMAIN ks |-> <<ks[i], <<"int", i>> >>]>> :
        ks \in UNION {[1..n -> MapKeys] : n \in 0..MaxEntries}}

\* byte strings of every length up to MaxBytes, told apart by their last byte
ByteStrings ==
    {[i \in 1..n |-> IF i = n THEN c ELSE b] :
        n \in 0..MaxBytes, b \in {2, 16}, c \in {0, 1, 2, 16, 17, 255}}

\* what the codec is applied to: a value to pack and unpack, a value to pack
\* and unpack in order, a byte string
\* to pad and unpad, or received content to unpack (of any length, and whole
\* blocks that decrypt to any of the byte strings)
CodecInputs ==
    {<<"value", k, v>> : k \in Codecs, v \in Values}
    \cup {<<"ordered", k, v>> : k \in Codecs, v \in Scalars \cup OrderedMaps}
    \cup {<<"bytes", k, x>> : k \in Codecs, x \in ByteStrings}
    \cup {<<"content", k, x>> : k \in Codecs, x \in ByteStrings}
    \cup {<<"content", k, cbc_encrypt(k.key, k.iv, x)>> :
             k \in Codecs, x \in {y \in ByteStrings : y # <<>> /\ Len(y) % block_size = 0}}

\* pack applied to a value
Pack ==
    /\ input[1] \in {"value", "ordered"}
    /\ output = <<>>
    /\ output' = <<pack(input[2], input[3])>>
    /\ UNCHANGED <<restVars, input>>

\* unpack applied to what pack returned, or to received content
Unpack ==
    /\ \/ input[1] = "value" /\ Len(output) = 1
       \/ input[1] = "content" /\ output = <<>>
    /\ LET data == IF input[1] = "value" THEN output[1] ELSE input[3]
       IN output' = <<data, unpack(input[2], data)>>
    /\ UNCHANGED <<restVars, input>>

\* unpack_ordered applied to what pack returned
UnpackOrdered ==
    /\ input[1] = "ordered"
    /\ Len(output) = 1
    /\ output' = <<output[1], unpack_ordered(input[2], output[1])>>
    /\ UNCHANGED <<restVars, input>>

\* pkcs7_pad applied to a byte string, and pkcs7_unpad to the result
Pad ==
    /\ input[1] = "bytes"
    /\ output = <<>>
    /\ output' = <<pkcs7_pad(input[3], block_size)>>
    /\ UNCHANGED <<restVars, input>>

Unpad ==
    /\ input[1] = "bytes"
    /\ Len(output) = 1
    /\ output' = <<output[1], pkcs7_unpad(output[1])>>
    /\ UNCHANGED <<restVars, input>>

CodecSpec == InitApply(CodecInputs) /\ [][Pack \/ Unpack \/ UnpackOrdered \/ Pad \/ Unpad]_vars

\* C17: for every value and every codec of a 16-byte key and IV, unpack
\* applied to what pack returned for the value returns the value.
C17_PackUnpackRoundTrip ==
    (input[1] = "value" /\ Len(output) = 2) => output[2] = <<"Ok", input[3]>>

\* a string whose encoding fills one block exactly went through two blocks
C17_Witness ==
    /\ input[1] = "value"
    /\ input[3] = <<"str", [i \in 1..15 |-> 97]>>
    /\ Len(output) = 2
    /\ Len(output[1]) = 2 * block_size
    /\ output[2] = <<"Ok", input[3]>>

\* the N bytes that end a decrypted block sequence are not a PKCS7 padding
BadPadding(d) ==
    LET n == d[Len(d)] IN
    n = 0 \/ n > 16 \/ \E i \in (Len(d) - n + 1)..Len(d) : d[i] # n

\* C18: pkcs7_pad(x, 16) is x followed by 1 to 16 bytes (16 when the length of
\* x is a multiple of 16), each equal to their number, and pkcs7_unpad gives x
\* back; unpack fails with CryptoError for content that is empty or not a
\* whole number of blocks, and for content that decrypts to bytes ending in
\* 0, in more than 16, or in N with the last N bytes not all N.
C18_Pkcs7 ==
    /\ (input[1] = "bytes" /\ output # <<>>) =>
          LET x == input[3]
              p == output[1]
              n == Len(p) - Len(x)
          IN /\ n \in 1..16
             /\ (Len(x) % 16 = 0) => n = 16
             /\ SubSeq(p, 1, Len(x)) = x
             /\ \A i \in (Len(x) + 1)..Len(p) : p[i] = n
             /\ Len(output) = 2 => output[2] = <<"Ok", x>>
    /\ (input[1] = "content" /\ output # <<>>) =>
          LET x == input[3] IN
          (\/ x = <<>>
           \/ Len(x) % 16 # 0
           \/ BadPadding(cbc_decrypt(input[2].key, input[2].iv, x)))
             => output[2][1] = "CryptoError"

\* two blocks that decrypt to bytes ending in 2 after a 16 were refused
C18_Witness ==
    /\ input[1] = "content"
    /\ Len(input[3]) = 2 * block_size
    /\ LET d == cbc_decrypt(input[2].key, input[2].iv, input[3])
       IN d[Len(d)] = 2 /\ d[Len(d) - 1] = 16
    /\ output # <<>>
    /\ output[2] = <<"CryptoError", "Invalid PKCS7 padding bytes">>

\* the form a key takes in the result: a string itself, an integer in decimal
KeyForm(k) == IF k[1] = "int" THEN to_string(k[2]) ELSE k[2]
\* the entries of an encoded map that have a string or an integer for a key,
\* and among them those whose key form has not appeared before
Keyed(pairs) == {i \in DOMAIN pairs : pairs[i][1][1] \in {"str", "int"}}
FirstOf(pairs) ==
    {i \in Keyed(pairs) :
        \A j \in Keyed(pairs) : j < i => KeyForm(pairs[j][1]) # KeyForm(pairs[i][1])}
\* unpack_ordered has returned for a packed value
OrderedDone == input[1] = "ordered" /\ Len(output) = 2

eventCards == <<"e", "v", "e", "n", "t", "C", "a", "r", "d", "s">>
compact == <<"c", "o", "m", "p", "a", "c", "t">>

\* IndexMap::get / Value::get
get(m, key) ==
    IF \E i \in DOMAIN m : m[i][1] = key
    THEN <<"Some", m[CHOOSE i \in DOMAIN m : m[i][1] = key][2]>>
    ELSE <<"None">>

\* str::strip_prefix
strip_prefix(key, prefix) ==
    IF Len(key) >= Len(prefix) /\ SubSeq(key, 1, Len(prefix)) = prefix
    THEN <<"Some", SubSeq(key, Len(prefix) + 1, Len(key))>>
    ELSE <<"None">>

\* char::to_lowercase, for the letters of the keys
to_lowercase(c) == CASE c = "E" -> "e" [] c = "C" -> "c" [] OTHER -> c

\* restore_dict: the loop stops at the shorter of the array and the structure
rounds(array_data, key_structure) ==
    IF Len(array_data) < Len(key_structure) THEN Len(array_data) ELSE Len(key_structure)

\* restore_dict, the __tuple__ form, after its first n rounds: name j takes
\* the j-th value, null values and values without a name are left out
RECURSIVE tuple_dict(_, _, _)
tuple_dict(value_arr, tuple_keys, n) ==
    IF n = 0 THEN <<>>
    ELSE LET dict == tuple_dict(value_arr, tuple_keys, n - 1) IN
         IF value_arr[n] # <<"null">> /\ n <= Len(tuple_keys) /\ tuple_keys[n][1] = "string"
         THEN map_insert(dict, tuple_keys[n][2], value_arr[n])
         ELSE dict

\* (a walk that keeps the null values)
RECURSIVE restore_dict_nulls(_, _, _)
restore_dict_nulls(array_data, key_structure, n) ==
    IF n = 0 THEN <<>>
    ELSE LET fields == restore_dict_nulls(array_data, key_structure, n - 1) IN
         IF key_structure[n][1] = "string"
         THEN map_insert(fields, key_structure[n][2], array_data[n])
         ELSE fields

\* restore_dict after its first n rounds: a null value is passed; a string
\* entry names the value; an entry [name, sub-array] names the list of the
\* non-null elements, the arrays among them restored with the sub-array; an
\* entry [name, {__tuple__: names}] names the map of the names to the elements
RECURSIVE restore_dict(_, _, _)
restore_dict(array_data, key_structure, n) ==
    IF n = 0 THEN <<>>
    ELSE LET fields == restore_dict(array_data, key_structure, n - 1)
             value == array_data[n]
             key == key_structure[n]
         IN
         IF value = <<"null">> THEN fields
         ELSE IF key[1] = "string" THEN map_insert(fields, key[2], value)
         ELSE IF key[1] = "array" /\ Len(key[2]) >= 2
         THEN LET field_name == IF key[2][1][1] = "string" THEN key[2][1][2] ELSE ""
                  sub == key[2][2]
                  tuple_keys == IF sub[1] = "object" THEN get(sub[2], "__tuple__")
                                ELSE <<"None">>
              IN IF sub[1] = "array"
                 THEN IF value[1] # "array" THEN fields
                      ELSE LET items == SelectSeq(value[2], LAMBDA s : s # <<"null">>) IN
                           map_insert(fields, field_name,
                               <<"array",
                                 [i \in DOMAIN items |->
                                    IF items[i][1] = "array"
                                    THEN <<"object",
                                           restore_dict(items[i][2], sub[2],
                                                        rounds(items[i][2], sub[2]))>>
                                    ELSE items[i]]>>)
                 ELSE IF tuple_keys[1] = "Some" /\ tuple_keys[2][1] = "array"
                         /\ value[1] = "array"
                 THEN map_insert(fields, field_name,
                                 <<"object", tuple_dict(value[2], tuple_keys[2][2],
                                                        Len(value[2]))>>)
                 ELSE fields
         ELSE fields

\* (a table that turns every value that is no index into null)
map_enum_null(enum_values, idx) ==
    IF idx[1] = "number" /\ idx[2] >= 0 /\ idx[2] < Len(enum_values)
    THEN enum_values[idx[2] + 1] ELSE <<"null">>

\* restore_compact_data, a value of a column that has an enum table: null
\* stays null, an unsigned integer is looked up (null when out of range), any
\* other value is cloned
map_enum(enum_values, idx) ==
    IF idx = <<"null">> THEN <<"null">>
    ELSE IF idx[1] = "number" /\ idx[2] >= 0
    THEN IF idx[2] < Len(enum_values) THEN enum_values[idx[2] + 1] ELSE <<"null">>
    ELSE idx

\* restore_compact_data: the labels are the keys other than __ENUM__, the
\* columns are the arrays among their values (run through the enum table of
\* the label, if any), and row i pairs the j-th label with value i of the
\* j-th column, for as many rows as the shortest column has
restore_compact_data(data) ==
    LET enum_def == get(data, "__ENUM__")
        enum_of(column) == IF enum_def[1] = "Some" /\ enum_def[2][1] = "object"
                           THEN get(enum_def[2][2], column) ELSE <<"None">>
        cols == SelectSeq(data, LAMBDA e : e[1] # "__ENUM__")
        arrays == SelectSeq(cols, LAMBDA e : e[2][1] = "array")
        columns == [j \in DOMAIN arrays |->
                      LET enum_values == enum_of(arrays[j][1]) IN
                      IF enum_values[1] = "Some" /\ enum_values[2][1] = "array"
                      THEN [i \in DOMAIN arrays[j][2][2] |->
                              map_enum(enum_values[2][2], arrays[j][2][2][i])]
                      ELSE arrays[j][2][2]]
        num_entries == IF columns = <<>> THEN 0
                       ELSE CHOOSE n \in {Len(columns[j]) : j \in DOMAIN columns} :
                               \A j \in DOMAIN columns : n <= Len(columns[j])
    IN [i \in 1..num_entries |->
          <<"object", [j \in DOMAIN columns |-> <<cols[j][1], columns[j][i]>>]>>]

\* item.get("cardId").and_then(|v| v.as_i64())
card_id(x) ==
    IF x[1] # "object" THEN <<"None">>
    ELSE LET v == get(x[2], "cardId") IN
         IF v[1] = "Some" /\ v[2][1] = "number" THEN <<"Some", v[2][2]>> ELSE <<"None">>

\* slice::sort_by on the card id (0 where there is none): a stable sort
RECURSIVE sort_by_id(_)
sort_by_id(items) ==
    IF items = <<>> THEN <<>>
    ELSE LET id(x) == IF card_id(x)[1] = "Some" THEN card_id(x)[2] ELSE 0
             rest == sort_by_id(Tail(items))
             before == {i \in DOMAIN rest : \A j \in 1..i : id(rest[j]) < id(Head(items))}
         IN SubSeq(rest, 1, Cardinality(before)) \o <<Head(items)>>
            \o SubSeq(rest, Cardinality(before) + 1, Len(rest))

\* nuverse_master_restorer, the block for eventCards: the items of the input
\* list whose id is not among the processed ones (or that have no id), then
\* the processed list, sorted by id
merge_event_cards(value_arr, processed_arr) ==
    LET existing_ids == {card_id(processed_arr[i])[2] :
                            i \in {j \in DOMAIN processed_arr : card_id(processed_arr[j])[1] = "Some"}}
        keep(x) == card_id(x)[1] = "None" \/ card_id(x)[2] \notin existing_ids
    IN sort_by_id(SelectSeq(value_arr, keep) \o processed_arr)

\* nuverse_master_restorer: one round of the loop over the bundle; st holds
\* restored_compact_master, processed_data and restored_from_compact
restorer_step(st, key, value, structures) ==
    LET stripped == strip_prefix(key, compact) IN
    IF stripped[1] = "Some"
    THEN LET kept == map_insert(st.compact, key, value) IN
         IF value[1] = "object" /\ stripped[2] # <<>>
         THEN LET new_key == <<to_lowercase(Head(stripped[2]))>> \o Tail(stripped[2])
              IN [compact |-> map_insert(kept, new_key,
                                         <<"array", restore_compact_data(value[2])>>),
                  processed |-> st.processed,
                  from_compact |-> st.from_compact \cup {new_key}]
         ELSE [st EXCEPT !.compact = kept]
    ELSE IF key \in st.from_compact THEN st
    ELSE LET structure == get(structures, key)
             restored ==
                IF structure[1] = "Some" /\ value[1] = "array" /\ structure[2][1] = "array"
                THEN <<"array",
                       LET arrays == SelectSeq(value[2], LAMBDA item : item[1] = "array")
                       IN [i \in DOMAIN arrays |->
                             <<"object",
                               restore_dict(arrays[i][2], structure[2][2],
                                            rounds(arrays[i][2], structure[2][2]))>>]>>
                ELSE value
             merged ==
                IF key = eventCards /\ restored[1] = "array" /\ value[1] = "array"
                THEN <<"array", merge_event_cards(value[2], restored[2])>>
                ELSE restored
         IN [st EXCEPT !.processed = map_insert(@, key, merged)]

RECURSIVE restorer_loop(_, _, _)
restorer_loop(st, master_data, structures) ==
    IF master_data = <<>> THEN st
    ELSE restorer_loop(restorer_step(st, Head(master_data)[1], Head(master_data)[2],
                                     structures),
                       Tail(master_data), structures)

\* nuverse_master_restorer: the loop, then the processed entries whose key is
\* not restored from a compact one, after the compact ones
nuverse_master_restorer(master_data, structures) ==
    LET st == restorer_loop([compact |-> <<>>, processed |-> <<>>, from_compact |-> {}],
                            master_data, structures)
    IN <<"Ok", st.compact \o SelectSeq(st.processed,
                                       LAMBDA e : get(st.compact, e[1])[1] = "None")>>

\* the longest list a bundle holds under one key, and the most keys of a bundle
MaxItems == 2
MaxKeys == 2

\* cards with and without an id, a row for a structure, a number
Items == {<<"object", <<<<"cardId", <<"number", n>> >>>> >> : n \in 1..2}
         \cup {<<"object", <<<<"x", <<"number", 1>> >>>> >>,
               <<"array", <<<<"number", 7>>>> >>, <<"number", 5>>}
\* what a bundle holds under a key: a list of items, or a table of columns
BundleValues ==
    {<<"array", l>> : l \in UNION {[1..n -> Items] : n \in 0..MaxItems}}
    \cup {<<"object", <<<<"cardId", <<"array", l>> >>>> >> :
             l \in {<<<<"number", 1>>>>, <<<<"number", 2>>, <<"number", 1>> >>}}
\* bundles of up to MaxKeys distinct keys, with or without a structure for "a"
Bundles ==
    {b \in UNION {[1..n -> {<<"a">>, eventCards, compact \o <<"E">> \o Tail(eventCards)} \X BundleValues] : n \in 1..MaxKeys} :
        \A i, j \in DOMAIN b : i # j => b[i][1] # b[j][1]}
Structures == {<<>>, <<<<<<"a">>, <<"array", <<<<"string", "id">>>> >> >>>>}

\* the master updater restores a downloaded bundle
Restore ==
    /\ output = <<>>
    /\ output' = <<nuverse_master_restorer(input[1], input[2])>>
    /\ UNCHANGED <<restVars, input>>

RestoreSpec == InitApply(Bundles \X Structures) /\ [][Restore]_vars

\* C20: a bundle that has no key beginning with compact and no key with an
\* entry in structures comes back from nuverse_master_restorer unchanged:
\* same keys, same order, same values, also under the key eventCards.
C20_PassThrough ==
    (/\ output # <<>>
     /\ \A i \in DOMAIN input[1] :
           /\ strip_prefix(input[1][i][1], compact)[1] = "None"
           /\ get(input[2], input[1][i][1])[1] = "None")
        => output[1] = <<"Ok", input[1]>>

\* the card ids of a list of items, in order (items without one left out)
CardIds(items) ==
    LET withId == SelectSeq(items, LAMBDA x : card_id(x)[1] = "Some")
    IN [i \in DOMAIN withId |-> card_id(withId[i])[2]]

\* C21: for a bundle that holds eventCards both as a compact table (under
\* compactEventCards) and as a raw list (under eventCards), in either key
\* order, the eventCards entry of the result holds every cardId of the
\* restored table and of the raw list exactly once, ascending by cardId.
C21_EventCardsMerged ==
    (/\ output # <<>>
     /\ Len(input[1]) = 2
     /\ {input[1][1][1], input[1][2][1]} = {eventCards, compact \o <<"E">> \o Tail(eventCards)}
     /\ get(input[1], eventCards)[2][1] = "array"
     /\ get(input[1], compact \o <<"E">> \o Tail(eventCards))[2][1] = "object")
        => LET raw == get(input[1], eventCards)[2][2]
               table == get(input[1], compact \o <<"E">> \o Tail(eventCards))[2][2]
               merged == get(output[1][2], eventCards)
           IN /\ merged[1] = "Some"
              /\ merged[2][1] = "array"
              /\ LET ids == CardIds(merged[2][2]) IN
                 /\ \A i, j \in DOMAIN ids : i < j => ids[i] < ids[j]
                 /\ Range(ids) = Range(CardIds(raw)) \cup Range(CardIds(restore_compact_data(table)))

\* ------------------------------------------------------------------------
\* C22: restore_dict
\* ------------------------------------------------------------------------
\* the longest array and the longest key structure restored
MaxFields == 3

\* the entries of a key structure: a field name, a name with a sub-array of
\* names, a name with a __tuple__ of names; and the data met at a position
DictInputs ==
    LET names == <<"array", <<<<"string", "resourceId">>, <<"string", "quantity">> >> >>
        entries == {<<"string", "id">>,
                    <<"array", <<<<"string", "costs">>, names>> >>,
                    <<"array", <<<<"string", "cost">>,
                                 <<"object", <<<<"__tuple__", names>>>> >> >> >>}
        pair == <<"array", <<<<"number", 100>>, <<"number", 10>> >> >>
        data == {<<"null">>, <<"number", 1>>, pair,
                 <<"array", <<<<"null">>, <<"number", 10>>, <<"number", 3>> >> >>,
                 <<"array", <<pair, <<"null">>, <<"number", 7>>,
                              <<"array", <<<<"number", 200>>>> >> >> >>}
    IN (UNION {[1..n -> data] : n \in 0..MaxFields})
       \X (UNION {[1..n -> entries] : n \in 0..MaxFields})

\* restore_dict applied to an array and a key structure
RestoreDict ==
    /\ output = <<>>
    /\ output' = <<restore_dict(input[1], input[2], rounds(input[1], input[2]))>>
    /\ UNCHANGED <<restVars, input>>

DictSpec == InitApply(DictInputs) /\ [][RestoreDict]_vars

\* the name an entry of a key structure gives its field
NameOf(key) == IF key[1] = "string" THEN key[2] ELSE key[2][1][2]
\* names[m] paired with vals[m] for the positions both have and where the
\* value is not null, in order
NamedValues(names, vals) ==
    LET at == {m \in 1..Len(vals) : m <= Len(names) /\ vals[m] # <<"null">>}
    IN [k \in 1..Cardinality(at) |->
          LET m == CHOOSE m \in at : Cardinality({l \in at : l <= m}) = k
          IN <<names[m][2], vals[m]>>]
\* what the claim says position i of the array becomes under entry i
FieldValue(key, value) ==
    IF key[1] = "string" THEN value
    ELSE IF key[2][2][1] = "array"
    THEN LET items == SelectSeq(value[2], LAMBDA s : s # <<"null">>) IN
         <<"array", [k \in DOMAIN items |->
                       IF items[k][1] = "array"
                       THEN <<"object", NamedValues(key[2][2][2], items[k][2])>>
                       ELSE items[k]]>>
    ELSE <<"object", NamedValues(key[2][2][2][1][2][2], value[2])>>
\* the positions restore_dict gives a field for: within the shorter length,
\* not null, and an array where the entry is not a plain name
Restored(a, ks) ==
    {i \in 1..Len(a) : /\ i <= Len(ks)
                       /\ a[i] # <<"null">>
                       /\ ks[i][1] = "string" \/ a[i][1] = "array"}

\* C22: restore_dict walks the array and the structure in parallel up to the
\* shorter length and passes null values; a name maps to the value; [name,
\* sub-array] maps name to the list of the non-null elements of the value,
\* arrays among them restored with the sub-array and the others copied; [name,
\* {__tuple__: names}] maps name to the map from names[j] to every non-null
\* element j of the value.  (Of two positions with the same name the later
\* one stands.)
C22_RestoreDict ==
    output # <<>> =>
        LET a == input[1]
            ks == input[2]
            fields == output[1]
            at == Restored(a, ks)
        IN /\ {fields[k][1] : k \in DOMAIN fields} = {NameOf(ks[i]) : i \in at}
           /\ \A k, l \in DOMAIN fields : k # l => fields[k][1] # fields[l][1]
           /\ \A i \in at :
                 (\A j \in at : NameOf(ks[j]) = NameOf(ks[i]) => j <= i)
                    => get(fields, NameOf(ks[i])) = <<"Some", FieldValue(ks[i], a[i])>>

\* [1, [100, 10]] under ["id", ["cost", {__tuple__: [resourceId, quantity]}]]
\* became {id: 1, cost: {resourceId: 100, quantity: 10}}
C22_Witness ==
    /\ Len(input[1]) = 2
    /\ input[1][1] = <<"number", 1>>
    /\ input[1][2] = <<"array", <<<<"number", 100>>, <<"number", 10>> >> >>
    /\ Len(input[2]) = 2
    /\ input[2][1] = <<"string", "id">>
    /\ input[2][2][1] = "array" /\ input[2][2][2][2][1] = "object"
    /\ output = << << <<"id", <<"number", 1>> >>,
                      <<"cost", <<"object", << <<"resourceId", <<"number", 100>> >>,
                                               <<"quantity", <<"number", 10>> >> >> >> >> >> >>

\* ------------------------------------------------------------------------
\* C23: restore_compact_data
\* ------------------------------------------------------------------------
\* the longest column of a compact table
MaxRows == 2

\* compact tables: an id column, a status column of indexes and of values
\* that are no index, and the enum table of status, in any order
CompactTables ==
    LET ids == {<<"array", <<<<"number", 1>>, <<"number", 2>> >> >>,
                <<"array", <<<<"number", 1>> >> >>}
        marks == {<<"number", 0>>, <<"number", 1>>, <<"number", 2>>,
                  <<"number", -1>>, <<"string", "x">>, <<"null">>}
        entries == {<<"id", v>> : v \in ids}
                   \cup {<<"status", <<"array", v>> >> :
                            v \in UNION {[1..n -> marks] : n \in 0..MaxRows}}
                   \cup {<<"__ENUM__", <<"object", <<<<"status",
                            <<"array", <<<<"string", "inactive">>,
                                         <<"string", "active">> >> >> >> >> >> >>}
    IN {t \in UNION {[1..n -> entries] : n \in 0..3} :
           \A i, j \in DOMAIN t : i # j => t[i][1] # t[j][1]}

\* restore_compact_data applied to a compact table
RestoreCompact ==
    /\ output = <<>>
    /\ output' = <<restore_compact_data(input)>>
    /\ UNCHANGED <<restVars, input>>

CompactSpec == InitApply(CompactTables) /\ [][RestoreCompact]_vars

\* the columns of a table: its entries other than __ENUM__, in input order
ColumnsOf(data) == SelectSeq(data, LAMBDA e : e[1] # "__ENUM__")
\* the value the claim gives for value v of the column of that label
EnumValue(data, label, v) ==
    LET enums == get(data, "__ENUM__")
        table == IF enums[1] = "Some" THEN get(enums[2][2], label) ELSE <<"None">>
    IN IF table[1] = "None" THEN v
       ELSE IF v[1] = "number" /\ v[2] >= 0 /\ v[2] < Len(table[2][2])
       THEN table[2][2][v[2] + 1]
       ELSE <<"null">>

\* C23: restore_compact_data returns as many rows as the shortest column
\* has values; row i maps every label other than __ENUM__, in input order,
\* to value i of that column, a value of a column with an enum table being
\* replaced by the table's entry, and by null when it is out of range or
\* not an integer.
C23_CompactRows ==
    output # <<>> =>
        LET cols == ColumnsOf(input)
            rows == output[1]
        IN /\ cols # <<>> =>
                 /\ \E j \in DOMAIN cols : Len(rows) = Len(cols[j][2][2])
                 /\ \A j \in DOMAIN cols : Len(rows) <= Len(cols[j][2][2])
           /\ \A i \in DOMAIN rows :
                 rows[i] = <<"object", [j \in DOMAIN cols |->
                               <<cols[j][1], EnumValue(input, cols[j][1], cols[j][2][2][i])>>]>>

\* ------------------------------------------------------------------------
\* C24: the user id carried by a token
\* ------------------------------------------------------------------------
\* the longest id put into a token
MaxIdLen == 2

\* the printable ASCII characters, from the space (32) to the tilde (126),
\* the grave accent (96) written out; a string is the sequence of its
\* characters
printable ==
    <<" ", "!", "\"", "#", "$", "%", "&", "'", "(", ")", "*", "+", ",", "-", ".", "/",
      "0", "1", "2", "3", "4", "5", "6", "7", "8", "9", ":", ";", "<", "=", ">", "?",
      "@", "A", "B", "C", "D", "E", "F", "G", "H", "I", "J", "K", "L", "M", "N", "O",
      "P", "Q", "R", "S", "T", "U", "V", "W", "X", "Y", "Z", "[", "\\", "]", "^", "_",
      "grave", "a", "b", "c", "d", "e", "f", "g", "h", "i", "j", "k", "l", "m", "n", "o",
      "p", "q", "r", "s", "t", "u", "v", "w", "x", "y", "z", "{", "|", "}", "~">>
\* str::as_bytes of a string of printable characters
as_bytes(s) == [i \in DOMAIN s |-> 31 + CHOOSE k \in DOMAIN printable : printable[k] = s[i]]
\* String::from_utf8, and the UTF-8 check of sonic_rs::from_slice, on bytes
\* that are printable ASCII; for any other byte the error is returned (the
\* tokens applied below decode to printable ASCII only)
from_utf8(bytes) ==
    IF \A i \in DOMAIN bytes : bytes[i] \in 32..126
    THEN <<"Ok", [i \in DOMAIN bytes |-> printable[bytes[i] - 31]]>>
    ELSE <<"Err">>

\* the alphabets of base64::engine::general_purpose::STANDARD and URL_SAFE
alphabet(url_safe) ==
    <<"A", "B", "C", "D", "E", "F", "G", "H", "I", "J", "K", "L", "M", "N", "O", "P",
      "Q", "R", "S", "T", "U", "V", "W", "X", "Y", "Z", "a", "b", "c", "d", "e", "f",
      "g", "h", "i", "j", "k", "l", "m", "n", "o", "p", "q", "r", "s", "t", "u", "v",
      "w", "x", "y", "z", "0", "1", "2", "3", "4", "5", "6", "7", "8", "9">>
    \o (IF url_safe THEN <<"-", "_">> ELSE <<"+", "/">>)
\* three bytes give four six-bit groups; one or two bytes at the end give
\* two or three
RECURSIVE sextets(_)
sextets(b) ==
    IF b = <<>> THEN <<>>
    ELSE IF Len(b) = 1 THEN <<b[1] \div 4, (b[1] % 4) * 16>>
    ELSE IF Len(b) = 2
    THEN <<b[1] \div 4, (b[1] % 4) * 16 + b[2] \div 16, (b[2] % 16) * 4>>
    ELSE <<b[1] \div 4, (b[1] % 4) * 16 + b[2] \div 16,
           (b[2] % 16) * 4 + b[3] \div 64, b[3] % 64>> \o sextets(SubSeq(b, 4, Len(b)))
\* Engine::encode: STANDARD pads with = to a multiple of four characters,
\* URL_SAFE_NO_PAD does not pad
b64_encode(url_safe, bytes) ==
    LET sx == sextets(bytes)
        abc == alphabet(url_safe)
    IN [i \in DOMAIN sx |-> abc[sx[i] + 1]]
       \o (IF url_safe THEN <<>> ELSE [i \in 1..((4 - (Len(sx) % 4)) % 4) |-> "="])
\* four six-bit groups give three bytes; two or three at the end give one
\* or two
RECURSIVE octets(_)
octets(sx) ==
    IF Len(sx) < 2 THEN <<>>
    ELSE IF Len(sx) = 2 THEN <<sx[1] * 4 + sx[2] \div 16>>
    ELSE IF Len(sx) = 3
    THEN <<sx[1] * 4 + sx[2] \div 16, (sx[2] % 16) * 16 + sx[3] \div 4>>
    ELSE <<sx[1] * 4 + sx[2] \div 16, (sx[2] % 16) * 16 + sx[3] \div 4,
           (sx[3] % 4) * 64 + sx[4]>> \o octets(SubSeq(sx, 5, Len(sx)))
\* Engine::decode: STANDARD requires the canonical padding, URL_SAFE_NO_PAD
\* admits none; both reject a character outside the alphabet, a lone last
\* character and non-zero trailing bits
b64_decode(url_safe, cs) ==
    LET abc == alphabet(url_safe)
        npad == IF cs # <<>> /\ cs[Len(cs)] = "="
                THEN IF Len(cs) > 1 /\ cs[Len(cs) - 1] = "=" THEN 2 ELSE 1
                ELSE 0
        body == SubSeq(cs, 1, Len(cs) - npad)
        last == Len(body) % 4
        sx == [i \in DOMAIN body |-> (CHOOSE k \in DOMAIN abc : abc[k] = body[i]) - 1]
    IN IF \/ \E i \in DOMAIN body : \A k \in DOMAIN abc : abc[k] # body[i]
          \/ last = 1
          \/ url_safe /\ npad # 0
          \/ ~url_safe /\ (Len(cs) % 4 # 0 \/ (npad = 0 /\ last # 0))
          \/ last = 2 /\ sx[Len(sx)] % 16 # 0
          \/ last = 3 /\ sx[Len(sx)] % 4 # 0
       THEN <<"Err">>
       ELSE <<"Ok", octets(sx)>>
\* URL_SAFE_NO_PAD.decode(..).or_else(|_| STANDARD.decode(..)), and the two
\* the other way round
decode_either(first_url_safe, cs) ==
    IF b64_decode(first_url_safe, cs)[1] = "Ok" THEN b64_decode(first_url_safe, cs)
    ELSE b64_decode(~first_url_safe, cs)

\* a JSON string whose content starts at i: the index of its closing quote,
\* 0 when it has none (of the escapes, \" and \\ are modelled)
RECURSIVE string_end(_, _)
string_end(cs, i) ==
    IF i > Len(cs) THEN 0
    ELSE IF cs[i] = "\"" THEN i
    ELSE IF cs[i] = "\\"
    THEN IF i + 1 <= Len(cs) /\ cs[i + 1] \in {"\"", "\\"} THEN string_end(cs, i + 2) ELSE 0
    ELSE string_end(cs, i + 1)
RECURSIVE unescape(_)
unescape(cs) ==
    IF cs = <<>> THEN <<>>
    ELSE IF Head(cs) = "\\" THEN <<cs[2]>> \o unescape(Tail(Tail(cs)))
    ELSE <<Head(cs)>> \o unescape(Tail(cs))
\* the fields "name":"value" of a JSON object from position i
RECURSIVE parse_fields(_, _)
parse_fields(cs, i) ==
    IF i > Len(cs) \/ cs[i] # "\"" THEN <<"Err">>
    ELSE LET ke == string_end(cs, i + 1) IN
         IF ke = 0 \/ ke + 2 > Len(cs) \/ cs[ke + 1] # ":" \/ cs[ke + 2] # "\""
         THEN <<"Err">>
         ELSE LET ve == string_end(cs, ke + 3) IN
              IF ve = 0 \/ ve + 1 > Len(cs) THEN <<"Err">>
              ELSE LET f == <<unescape(SubSeq(cs, i + 1, ke - 1)),
                              unescape(SubSeq(cs, ke + 3, ve - 1))>>
                       rest == parse_fields(cs, ve + 2)
                   IN IF cs[ve + 1] = "}" /\ ve + 1 = Len(cs) THEN <<"Ok", <<f>> >>
                      ELSE IF cs[ve + 1] = "," /\ rest[1] = "Ok" THEN <<"Ok", <<f>> \o rest[2]>>
                      ELSE <<"Err">>
\* sonic_rs::from_slice into a struct of one Option<String> field known by
\* the given names: the object's fields are read and the others ignored
from_slice(bytes, names) ==
    LET text == from_utf8(bytes)
        fields == IF text[2] = <<"{", "}">> THEN <<"Ok", <<>> >> ELSE parse_fields(text[2], 2)
    IN IF text[1] = "Err" \/ text[2] = <<>> THEN <<"Err">>
       ELSE IF text[2][1] # "{" \/ fields[1] = "Err" THEN <<"Err">>
       ELSE LET found == SelectSeq(fields[2], LAMBDA f : f[1] \in names) IN
            <<"Ok", IF found = <<>> THEN <<"None">> ELSE <<"Some", found[1][2]>> >>

\* token.split('.').collect(): the pieces between the dots
token_parts(cs) ==
    LET dots == {i \in DOMAIN cs : cs[i] = "."}
        dot(k) == IF k = 0 THEN 0
                  ELSE IF k > Cardinality(dots) THEN Len(cs) + 1
                  ELSE CHOOSE d \in dots : Cardinality({e \in dots : e <= d}) = k
    IN [k \in 1..(Cardinality(dots) + 1) |-> SubSeq(cs, dot(k - 1) + 1, dot(k) - 1)]

\* (a format check that lets longer tokens pass)
jwt_format_lax(parts) == Len(parts) >= 3
\* parts.len() != 3 is the format error
jwt_format(parts) == Len(parts) = 3
\* the payload segment of a token of three segments, decoded and parsed
payload_id(jwt, names) ==
    LET parts == token_parts(jwt) IN
    IF ~jwt_format(parts) THEN <<"ParseError", "format">>
    ELSE LET payload_bytes == decode_either(TRUE, parts[2]) IN
         IF payload_bytes[1] = "Err" THEN <<"ParseError", "decode">>
         ELSE LET payload == from_slice(payload_bytes[2], names) IN
              IF payload[1] = "Err" THEN <<"ParseError", "parse">>
              ELSE IF payload[2][1] = "None" THEN <<"ParseError", "not found">>
              ELSE <<"Ok", payload[2][2]>>
extract_user_id_from_jwt(jwt) ==
    payload_id(jwt, {<<"u", "s", "e", "r", "I", "d">>, <<"u", "s", "e", "r", "_", "i", "d">>})
extract_user_id_from_nuverse_token(encoded) ==
    LET decoded_jwt == decode_either(FALSE, encoded) IN
    IF decoded_jwt[1] = "Err" THEN <<"ParseError", "decode">>
    ELSE LET jwt_str == from_utf8(decoded_jwt[2]) IN
         IF jwt_str[1] = "Err" THEN <<"ParseError", "UTF-8">>
         ELSE payload_id(jwt_str[2],
                         {<<"s", "d", "k", "_", "o", "p", "e", "n", "_", "i", "d">>})

\* the ids put into tokens, quotes, backslashes and dots among them
IdStrings == UNION {[1..n -> {"7", "a", "\"", "\\", "."}] : n \in 0..MaxIdLen}
\* format!(r#"{{"name":"{id}"}}"#) with the id escaped as JSON escapes it
json_of(name, id) ==
    LET escape(c) == IF c \in {"\"", "\\"} THEN <<"\\", c>> ELSE <<c>>
        escaped[i \in 0..Len(id)] == IF i = 0 THEN <<>> ELSE escaped[i - 1] \o escape(id[i])
    IN <<"{", "\"">> \o name \o <<"\"", ":", "\"">> \o escaped[Len(id)] \o <<"\"", "}">>
\* header.<base64url of the payload>.sig
jwt_of(name, id) ==
    <<"h", "e", "a", "d", "e", "r", ".">>
    \o b64_encode(TRUE, as_bytes(json_of(name, id))) \o <<".", "s", "i", "g">>
\* the tokens applied: <<extractor, "id", id, the token made for the id>>,
\* and <<extractor, "raw", text, the token made of the text>> for texts of
\* few characters and for good tokens with a segment more or a segment less
TokenInputs ==
    LET userId == <<"u", "s", "e", "r", "I", "d">>
        sdk_open_id == <<"s", "d", "k", "_", "o", "p", "e", "n", "_", "i", "d">>
        texts(name) ==
            UNION {[1..n -> {"a", "."}] : n \in 0..4}
            \cup {jwt_of(name, id) \o <<".", "x">> : id \in IdStrings}
            \cup {SubSeq(jwt_of(name, id), 1, Len(jwt_of(name, id)) - 4) : id \in IdStrings}
    IN {<<"jwt", "id", id, jwt_of(userId, id)>> : id \in IdStrings}
       \cup {<<"nuverse", "id", id, b64_encode(FALSE, as_bytes(jwt_of(sdk_open_id, id)))>> :
                id \in IdStrings}
       \cup {<<"jwt", "raw", t, t>> : t \in texts(userId)}
       \cup {<<"nuverse", "raw", t, b64_encode(FALSE, as_bytes(t))>> : t \in texts(sdk_open_id)}

\* the extractor named by the input applied to the token
ExtractUserId ==
    /\ output = <<>>
    /\ output' = <<IF input[1] = "jwt" THEN extract_user_id_from_jwt(input[4])
                   ELSE extract_user_id_from_nuverse_token(input[4])>>
    /\ UNCHANGED <<restVars, input>>

TokenSpec == InitApply(TokenInputs) /\ [][ExtractUserId]_vars

\* C24: for every id s, extract_user_id_from_jwt returns s from header. +
\* base64url(JSON{userId: s}) + .sig, and extract_user_id_from_nuverse_token
\* returns s from the standard base64 of header. +
\* base64url(JSON{sdk_open_id: s}) + .sig; a token that has not exactly three
\* segments between dots is rejected with ParseError.
C24_TokenRoundTrip ==
    output # <<>> =>
        /\ input[2] = "id" => output[1] = <<"Ok", input[3]>>
        /\ (input[2] = "raw" /\ Cardinality({i \in DOMAIN input[3] : input[3][i] = "."}) # 2)
              => output[1][1] = "ParseError"

\* an id with a quote in it came back out of a Nuverse token
C24_Witness ==
    /\ input[1] = "nuverse" /\ input[2] = "id"
    /\ input[3] = <<"7", "\"">>
    /\ output = << <<"Ok", <<"7", "\"">> >> >>

\* ------------------------------------------------------------------------
\* C25: the writes of the token cell
\* ------------------------------------------------------------------------
\* task p takes the HTTP response of its call_api or login exchange in this
\* step, and the session lives on
TakesResponse(p) ==
    /\ exch[p].state = "answered"
    /\ exch[p].resp # NetErr
    /\ exch[p].kind \in {"api", "login"}
    /\ exch'[p] = NoExch
    /\ account'[exch[p].sid] # 0

C26_CallApi ==
    /\ [](\A c \in Callers :
            /\ attempt[c] <= call_api_max_retries
            /\ InCallApi(c) => api_lock[session[c]] = c
            /\ ~InCallApi(c) => \A s \in Sids : api_lock[s] # c)
    /\ [][\A c \in Callers :
            (pc[c] = "recv" /\ exch[c].state = "answered" /\ exch'[c] = NoExch) =>
               IF exch[c].resp # NetErr
               THEN /\ ~InCallApi(c)'
                    /\ log'[c] = Append(log[c], Last(log'[c]))
                    /\ Last(log'[c]).op = "GET" /\ Last(log'[c]).st = exch[c].resp.st
               ELSE IF attempt[c] < call_api_max_retries
               THEN InCallApi(c)' /\ attempt'[c] = attempt[c] + 1 /\ token' = token
               ELSE /\ ~InCallApi(c)'
                    /\ result'[c] = "NetworkError"
                    /\ \A s \in Sids : account'[s] # 0 => token'[s] = token[s]]_vars

\* four sends of one call failed: NetworkError, and the lock of the session
\* (still in the pool) is free
C26_Witness ==
    \E c \in Callers :
        /\ pc[c] = "done" /\ result[c] = "NetworkError"
        /\ sent[c] = call_api_max_retries
        /\ log[c] = <<>>
        /\ sessions # <<>> /\ api_lock[sessions[1]] = "free"

\* ------------------------------------------------------------------------
\* C27: the steps of a reload
\* ------------------------------------------------------------------------
\* reload_accounts has been entered and has not returned
InReload ==
    /\ pc[Loader] \in {"reload_sleep", "next", "login_recv"}
    /\ \E i \in DOMAIN evlog : evlog[i].did = "reload"
\* the order of the steps: the flag is set on entry, before anything else;
\* the pool is emptied by the one step that also resets the index and reads
\* the directory; it grows only by the session whose login just returned Ok;
\* the flag is cleared only after the loop over the accounts
ReloadOrder ==
    /\ (~reload_in_progress /\ reload_in_progress') =>
          pc[Loader] = "watch" /\ pc'[Loader] = "reload_sleep" /\ poolVars' = poolVars
    /\ (pc[Loader] = "reload_sleep" /\ pc'[Loader] # "reload_sleep") =>
          sessions' = <<>> /\ session_index' = 0
    /\ (InReload /\ pc[Loader] # "reload_sleep") =>
          \/ sessions' = sessions
          \/ /\ pc[Loader] = "login_recv"
             /\ login_result(exch[Loader]) = "Ok"
             /\ sessions' = Append(sessions, session[Loader])
    /\ (reload_in_progress /\ ~reload_in_progress') =>
          pc[Loader] = "next" /\ todo = <<>> /\ pc'[Loader] = "watch"

\* C27: every reload sets the flag, then clears the pool and resets the
\* index in one step, then reparses, then logs each account in and appends
\* the successful ones, then clears the flag; reloads do not overlap, so
\* whenever the flag is false no reload is rebuilding the pool.
C27_ReloadSteps ==
    /\ [][ReloadOrder]_vars
    /\ [](InReload => reload_in_progress)
    /\ [](pc[Loader] = "watch" => ~reload_in_progress)

\* ------------------------------------------------------------------------
\* C28: picking a session while a reload is in progress
\* ------------------------------------------------------------------------
\* a high-level operation goes to the pool for a session in this step
PicksSession ==
    \/ fetches' # fetches
    \/ \E c \in Callers : pc[c] = "pick" /\ pc'[c] # "pick"

\* C28: get_game_api and the two image fetches wait while the reload flag is
\* set and go to the pool only when they have seen it clear, so none of them
\* returns NoClientAvailable because a reload has emptied the pool.
C28_PickWaitsForReload ==
    [][PicksSession => ~reload_in_progress]_vars

\* ------------------------------------------------------------------------
\* C29: two sessions of one account
\* ------------------------------------------------------------------------
\* s and t are different session objects of the same account
Twins(s, t) == s # t /\ account[s] # 0 /\ account[s] = account[t]

\* C29: a caller that picked its session before a reload cleared the pool
\* goes on using it while the reload logs the same account in again and puts
\* a second session for it into the pool (the state of C29_Witness).  The
\* session the reload logs in is a new object, which no task holds and the
\* pool does not have, and each of the two has its own token cell and its
\* own api lock: no step writes both tokens or moves both locks.
C29_SecondSession ==
    /\ [](pc[Loader] = "login_recv" =>
            /\ \A i \in DOMAIN sessions : sessions[i] # session[Loader]
            /\ \A p \in Procs \ {Loader} : Holding(p, pc[p]) => session[p] # session[Loader])
    /\ [][\A s, t \in Sids :
            (Twins(s, t) /\ account'[s] # 0 /\ account'[t] # 0) =>
               /\ token'[s] = token[s] \/ token'[t] = token[t]
               /\ api_lock'[s] = api_lock[s] \/ api_lock'[t] = api_lock[t]]_vars

\* the caller has a request in flight on the session it picked before the
\* reload and holds its lock; the pool has another session of the same
\* account, logged in by the reload, whose lock is free
C29_Witness ==
    \E c \in Callers : \E i \in DOMAIN sessions :
        /\ exch[c].state = "sent" /\ exch[c].sid = session[c]
        /\ api_lock[session[c]] = c
        /\ \A j \in DOMAIN sessions : sessions[j] # session[c]
        /\ Twins(session[c], sessions[i])
        /\ sessions[i] \in loginOk
        /\ api_lock[sessions[i]] = "free"
        /\ \E k \in DOMAIN evlog : evlog[k].did = "reload"

\* ------------------------------------------------------------------------
\* C30: Master Sync and the version manifest
\* ------------------------------------------------------------------------
\* the most master fragments of a login, and the most files of a fragment
MaxFragments == 2
MaxFiles == 2

\* (a comparison whose Err counts as true)
check_cp_versions_err(lg, cur) ==
    <<compare_version(lg.data, cur.data) # "false",
      compare_version(lg.asset, cur.asset) # "false">>

\* check_cp_versions: <<need_master, need_asset>>, an Err of compare_version
\* counting as false
check_cp_versions(lg, cur) ==
    <<compare_version(lg.data, cur.data) = "true",
      compare_version(lg.asset, cur.asset) = "true">>
check_nuverse_versions(lg, cur) == <<lg.cdn > cur.cdn, lg.cdn > cur.cdn>>

\* save_master_files: writes[i] tells whether file i of the data was
\* written; the error is returned only when files failed and none succeeded
save_master_files(writes) ==
    LET success_count == Cardinality({i \in DOMAIN writes : writes[i]})
        fail_count == Cardinality({i \in DOMAIN writes : ~writes[i]})
    IN IF fail_count > 0 /\ success_count = 0 THEN "ParseError" ELSE "Ok"

\* update_master_data.  CP: every split path is fetched, a fetch that fails
\* gives None and drops out of the results, and the data of the others is
\* saved, the first error of save_master_files leaving through `?`.  Nuverse:
\* the one download, unpacked and restored, leaves through `?` when it fails,
\* and is saved otherwise.
update_master_data(server, fragments) ==
    LET results == SelectSeq(fragments, LAMBDA f : f[1] = "data") IN
    IF server = "cp"
    THEN IF \E i \in DOMAIN results : save_master_files(results[i][2]) # "Ok"
         THEN "ParseError" ELSE "Ok"
    ELSE IF fragments[1][1] = "none" THEN "NetworkError"
         ELSE save_master_files(fragments[1][2])

\* save_version: the manifest is rewritten with the new dataVersion, then
\* the snapshot <dataVersion>.json is written; either write may fail
save_version(manifest, new_version, save) ==
    [manifest |-> IF save = "manifest_fails" THEN manifest ELSE new_version,
     snapshots |-> IF save = "ok" THEN {new_version} ELSE {}]

\* check_update: the version file is loaded, a session picked and logged in
\* (a failure of any of these ends the run); the master data is updated when
\* the login announces a newer one, an error of update_master_data being
\* logged; then, when master or assets needed an update, the manifest is
\* saved with the login's versions and the changes are pushed to git.  The
\* asset updaters are notified (before the master update) when the assets
\* needed an update.
check_update(in) ==
    LET needs == IF in.server = "cp" THEN check_cp_versions(in.login, in.current)
                 ELSE check_nuverse_versions(in.login, in.current)
        kept == [manifest |-> in.current.data, snapshots |-> {}]
    IN IF in.stage # "ok"
       THEN kept @@ [master |-> "not run", notified |-> FALSE, git |-> FALSE]
       ELSE (IF needs[1] \/ needs[2]
             THEN save_version(in.current.data, in.login.data, in.save)
             ELSE kept)
            @@ [master |-> IF needs[1] THEN update_master_data(in.server, in.fragments)
                           ELSE "not run",
                notified |-> needs[2],
                git |-> needs[1] \/ needs[2]]

\* the runs: the versions of the manifest and of the login, how far the run
\* gets before the comparison, what the fetches and the file writes of the
\* master data do, and what the writes of save_version do (a login may
\* announce a version that does not parse)
SyncInputs ==
    LET versions == {<<"1">>, <<"1", ".", "1">>}
        announced == versions \cup {<<"1", ".">>}
        fragment == {<<"none", <<>> >>}
                    \cup {<<"data", w>> : w \in UNION {[1..n -> BOOLEAN] : n \in 0..MaxFiles}}
    IN [server : Regions,
        current : [data : versions, asset : {<<"1">>}, cdn : {1}],
        login : [data : announced, asset : announced, cdn : {1, 2}],
        stage : {"load fails", "no session", "login fails", "ok"},
        fragments : UNION {[1..n -> fragment] : n \in 1..MaxFragments},
        save : {"ok", "manifest_fails", "snapshot_fails"}]

\* one run of check_update
CheckUpdate ==
    /\ output = <<>>
    /\ output' = <<check_update(input)>>
    /\ UNCHANGED <<restVars, input>>

SyncSpec == InitApply(SyncInputs) /\ [][CheckUpdate]_vars

\* the master download and the master file writes of the run succeeded:
\* every fragment was fetched and none had all its writes fail
MasterSynced(in) ==
    /\ in.stage = "ok"
    /\ \A i \in DOMAIN in.fragments :
          /\ in.fragments[i][1] = "data"
          /\ in.fragments[i][2] = <<>> \/ \E k \in DOMAIN in.fragments[i][2] : in.fragments[i][2][k]

\* C30: a Master Sync run moves the manifest's dataVersion to the login's,
\* and writes the snapshot of that version, only if the master download and
\* the master file writes of the run succeeded; when the download fails,
\* when fragment fetches fail, or when all file writes fail, the manifest
\* keeps its dataVersion.
C30_ManifestAfterSync ==
    output # <<>> =>
        \/ /\ output[1].manifest = input.current.data
           /\ output[1].snapshots \subseteq {input.current.data}
        \/ /\ MasterSynced(input)
           /\ output[1].master = "Ok"
           /\ output[1].manifest = input.login.data

\* ------------------------------------------------------------------------
\* C31: a Master Sync run that finds nothing new
\* ------------------------------------------------------------------------
\* the login announces nothing newer than the manifest: on a CP server
\* compare_version gives true for neither the data nor the asset version, on
\* a Nuverse server the cdnVersion is not greater
NothingNew(in) ==
    IF in.server = "cp"
    THEN /\ compare_version(in.login.data, in.current.data) # "true"
         /\ compare_version(in.login.asset, in.current.asset) # "true"
    ELSE ~(in.login.cdn > in.current.cdn)

\* C31: a Master Sync run in which neither the master data nor the assets
\* need an update notifies no asset updater, downloads and writes no master
\* file, and leaves the manifest, the snapshots and the git repository as
\* they were.
C31_NothingNewNothingDone ==
    (output # <<>> /\ NothingNew(input)) =>
        /\ ~output[1].notified
        /\ output[1].master = "not run"
        /\ output[1].manifest = input.current.data
        /\ output[1].snapshots = {}
        /\ ~output[1].git

\* a run on a CP server got as far as the comparison, the login announced
\* the versions of the manifest, and nothing was done
C31_Witness ==
    /\ output # <<>>
    /\ input.server = "cp" /\ input.stage = "ok"
    /\ input.login.data = input.current.data
    /\ input.login.asset = input.current.asset
    /\ output[1].master = "not run" /\ ~output[1].notified /\ ~output[1].git

\* ------------------------------------------------------------------------
\* C32: the header book after a sync
\* ------------------------------------------------------------------------
\* C32: once a Master Sync run has written a new manifest, the header book
\* holds the versions of that manifest, so that the requests prepared from
\* then on carry them.
C32_HeadersFollowManifest ==
    [][version_file' # version_file => headers'.ver = version_file']_vars

\* ------------------------------------------------------------------------
\* retry_async (src/utils.rs)
\* ------------------------------------------------------------------------
\* the longest sequence of attempts an operation is given
MaxAttempts == 3
\* the kinds of AppError an operation fails with
ErrorKinds == {"NetworkError", "SessionError", "ParseError"}
\* is_retryable_error, as the set of the kinds it accepts
is_retryable_error == {"NetworkError", "SessionError", "CookieExpired"}
\* the loop goes on one attempt earlier than the code's
retry_continues_early(tries, limit) == tries + 1 < limit
\* `tries < max_retries` of the Err arm
retry_continues(tries, limit) == tries < limit
\* retry_async: operation[k] is what the k-th invocation of the operation
\* yields, should_retry the set of the error kinds the predicate accepts.
\* The value tells what is returned and how often the operation was invoked.
retry_async(limit, should_retry, operation) ==
    LET loop[tries \in 1..(limit + 1)] ==
            IF tries > limit
            THEN [returned |-> <<"Err", IF limit = 0 THEN "NetworkError"
                                        ELSE operation[limit][2]>>,
                  calls |-> limit]
            ELSE IF operation[tries][1] = "Ok"
            THEN [returned |-> operation[tries], calls |-> tries]
            ELSE IF retry_continues(tries, limit)
                    /\ operation[tries][2] \in should_retry
            THEN loop[tries + 1]
            ELSE [returned |-> operation[tries], calls |-> tries]
    IN loop[1]

RetryInputs ==
    [max_retries : 0..MaxAttempts,
     should_retry : {is_retryable_error, ErrorKinds},
     operation : [1..MaxAttempts -> {<<"Ok", 42>>, <<"Ok", 7>>}
                                      \cup {<<"Err", k>> : k \in ErrorKinds}]]

\* retry_async applied to a bound, a predicate and an operation
RetryAsync ==
    /\ output = <<>>
    /\ output' = <<retry_async(input.max_retries, input.should_retry, input.operation)>>
    /\ UNCHANGED <<restVars, input>>

RetryAsyncSpec == InitApply(RetryInputs) /\ [][RetryAsync]_vars

\* the k-th attempt fails with an error the predicate accepts
Accepted(in, k) ==
    in.operation[k][1] = "Err" /\ in.operation[k][2] \in in.should_retry

\* C40: with max_retries >= 1, retry_async returns the first Ok when the
\* attempts before it failed with accepted errors, after as many invocations
\* as that attempt's number; when all max_retries attempts fail with accepted
\* errors it returns the error of the last one after exactly max_retries
\* invocations; and an error the predicate rejects is returned by the
\* attempt that met it, the operation being invoked no further.
C40_RetryAsync ==
    (output # <<>> /\ input.max_retries >= 1) =>
        LET out == output[1]
            n == input.max_retries
        IN /\ out.calls \in 1..n
           /\ \A k \in 1..n :
                (\A j \in 1..(k - 1) : Accepted(input, j)) =>
                    /\ input.operation[k][1] = "Ok" =>
                         out = [returned |-> input.operation[k], calls |-> k]
                    /\ (input.operation[k][1] = "Err" /\ ~Accepted(input, k)) =>
                         out = [returned |-> input.operation[k], calls |-> k]
           /\ (\A k \in 1..n : Accepted(input, k)) =>
                out = [returned |-> input.operation[n], calls |-> n]

\* two failures the predicate accepts, of different kinds, and then a third:
\* the third attempt's error came back after three invocations
C40_Witness ==
    /\ output # <<>>
    /\ input.max_retries = 3
    /\ input.should_retry = is_retryable_error
    /\ input.operation = <<<<"Err", "SessionError">>, <<"Err", "SessionError">>,
                           <<"Err", "NetworkError">>>>
    /\ output[1] = [returned |-> <<"Err", "NetworkError">>, calls |-> 3]

\* ------------------------------------------------------------------------
\* C35: the stored user id of an account entry
\* ------------------------------------------------------------------------
\* the file of an entry holds a user id of its own: a non-empty one, and on a
\* Nuverse server one that is not "0" either
StoredId(f) == f.fb # "" /\ (region = "nuverse" => f.fb # "0")

\* C35: the derivation from the token only fills in a missing id: the account
\* parsed from an entry whose file holds a user id has that user id, whatever
\* its token yields.
C35_StoredIdKept ==
    (pc[Loader] = "next" /\ todo # <<>> /\ StoredId(files[Head(todo)]))
        => parse_account_value(files[Head(todo)]) = files[Head(todo)].fb

\* ------------------------------------------------------------------------
\* C37: get_session against a pool that reloads rewrite
\* ------------------------------------------------------------------------
\* C37: whatever init and the reloads have done to the pool and the index,
\* a get_session that reads an empty pool returns None and takes nothing,
\* and one that reads a pool with sessions returns one of the sessions the
\* pool holds at that instant and sends on it.
C37_GetSessionInPool ==
    [][fetches' # fetches =>
         IF sessions = <<>>
         THEN /\ result'[Image] = "NoClientAvailable"
              /\ pc'[Image] = "idle"
              /\ session'[Image] = session[Image]
              /\ session_index' = session_index
         ELSE /\ pc'[Image] = "recv"
              /\ \E i \in DOMAIN sessions :
                    /\ session'[Image] = sessions[i]
                    /\ exch'[Image].sid = sessions[i]]_vars

\* a reload has cleared the pool, reset the index and put one session back;
\* the third fetch of the run read the pool then and got that session
C37_Witness ==
    /\ pc[Image] = "recv"
    /\ pc[Loader] \in {"next", "login_recv"}
    /\ reload_in_progress
    /\ Len(sessions) = 1
    /\ session[Image] = sessions[1]
    /\ fetches <= MaxFetches - 3

\* ------------------------------------------------------------------------
\* The cookie fetcher (src/client/helper.rs)
\* ------------------------------------------------------------------------
\* `for _ in 0..4`: the POSTs of one get_cookies call
cookie_attempts == 4
\* Set-Cookie values, as bytes: two of visible ASCII and one with a byte
\* above it
CookieValues == {<<97>>, <<98>>, <<97, 233>>}
\* what one POST comes back with: a transport error, or a status and the
\* first Set-Cookie value of the response (<<>>: the header is absent)
CookieAnswers ==
    {[ok |-> FALSE, success |-> FALSE, set_cookie |-> <<>>]}
        \cup [ok : {TRUE}, success : BOOLEAN, set_cookie : {<<>>} \cup {<<v>> : v \in CookieValues}]

\* HeaderValue::to_str: the text of a value whose bytes are all visible ASCII
\* or tabs, an error for any other value
to_str(bytes) ==
    IF \A i \in DOMAIN bytes : bytes[i] = 9 \/ bytes[i] \in 32..126
    THEN <<"Ok", bytes>> ELSE <<"Err">>

\* resp.status().is_success() of an answered POST
status_is_success(answer) == answer.ok /\ answer.success

\* CookieHelper::get_cookies against the answers the POSTs get, with `cached`
\* in the helper's cell: what is returned, the cell afterwards and the number
\* of POSTs sent
get_cookies(answers, cached) ==
    LET loop[n \in 1..(cookie_attempts + 1)] ==
            IF n > cookie_attempts
            THEN [returned |-> <<"NetworkError">>, cookies |-> cached, posts |-> cookie_attempts]
            ELSE IF status_is_success(answers[n]) /\ answers[n].set_cookie # <<>>
            THEN LET text == to_str(answers[n].set_cookie[1])
                     cookie_str == IF text[1] = "Ok" THEN text[2] ELSE <<>>
                 IN [returned |-> <<"Ok", cookie_str>>, cookies |-> cookie_str, posts |-> n]
            ELSE loop[n + 1]
    IN loop[1]

\* SekaiClient::refresh_cookies on an engine with a cookie helper: the Cookie
\* entry of the header book afterwards, next to the outcome of get_cookies
refresh_cookies(book, answers, cached) ==
    LET got == get_cookies(answers, cached)
    IN got @@ [cookie_header |-> IF got.returned[1] = "Ok" THEN got.returned[2] ELSE book]

CookieInputs ==
    [answers : [1..cookie_attempts -> CookieAnswers],
     cached : {<<>>, <<111>>},
     book : {<<111>>}]

\* refresh_cookies applied to a header book, a cached cookie and four answers
RefreshCookies ==
    /\ output = <<>>
    /\ output' = <<refresh_cookies(input.book, input.answers, input.cached)>>
    /\ UNCHANGED <<restVars, input>>

CookieSpec == InitApply(CookieInputs) /\ [][RefreshCookies]_vars

\* the answers that are successful responses with a Set-Cookie header
WithCookie(in) ==
    {n \in 1..cookie_attempts :
        in.answers[n].ok /\ in.answers[n].success /\ in.answers[n].set_cookie # <<>>}

\* C36: get_cookies sends at most four POSTs; the first successful response
\* with a Set-Cookie header ends it, its Set-Cookie value being returned and
\* cached (and made the Cookie entry of the header book); a successful
\* response without the header counts as a failed attempt; and when none of
\* four answers is such a response NetworkError is returned, the cached
\* cookie and the Cookie entry staying as they were.
C36_CookieFetch ==
    output # <<>> =>
        LET out == output[1]
            hits == WithCookie(input)
        IN /\ out.posts <= 4
           /\ hits # {} =>
                LET first == CHOOSE n \in hits : \A m \in hits : n <= m
                    value == input.answers[first].set_cookie[1]
                IN out = [returned |-> <<"Ok", value>>, cookies |-> value,
                          posts |-> first, cookie_header |-> value]
           /\ hits = {} =>
                out = [returned |-> <<"NetworkError">>, cookies |-> input.cached,
                       posts |-> 4, cookie_header |-> input.book]

\* ------------------------------------------------------------------------
\* App-Hash Sync (src/updater/apphash.rs)
\* ------------------------------------------------------------------------
\* the most sources a region is configured with
MaxSources == 3
\* the AppInfo values a source yields
AppInfos == [app_version : {"1", "2"}, app_hash : {"h1", "h2"}]

\* (a comparison that looks at the version alone)
app_info_differs_by_version(new_info, current) ==
    new_info.app_version # current.app_version
\* new_info.app_version != current.app_version || new_info.app_hash != current.app_hash
app_info_differs(new_info, current) ==
    new_info.app_version # current.app_version \/ new_info.app_hash # current.app_hash

\* AppHashUpdater::update_version: the file read again, the two keys
\* inserted, the map written back
update_version(file, info) ==
    [file EXCEPT !.appVersion = info.app_version, !.appHash = info.app_hash]

\* AppHashUpdater::check_update on the manifest `file`: sources[k] is what
\* fetch_from_source yields for the k-th source (<<"Err">>, <<"None">> or
\* <<"Some", info>>), `load` and `write` tell whether the first read of the
\* manifest and the final write go through.  The value: the file afterwards,
\* the number of sources fetched and the number of writes attempted.
apphash_check_update(file, sources, load, write) ==
    LET current == [app_version |-> file.appVersion, app_hash |-> file.appHash]
        loop[k \in 1..(Len(sources) + 1)] ==
            IF k > Len(sources)
            THEN [file |-> file, fetched |-> Len(sources), writes |-> 0]
            ELSE IF sources[k][1] = "Some"
            THEN IF app_info_differs(sources[k][2], current)
                 THEN [file |-> IF write = "ok" THEN update_version(file, sources[k][2])
                                ELSE file,
                       fetched |-> k, writes |-> 1]
                 ELSE [file |-> file, fetched |-> k, writes |-> 0]
            ELSE loop[k + 1]
    IN IF load # "ok" THEN [file |-> file, fetched |-> 0, writes |-> 0]
       ELSE loop[1]

AppHashInputs ==
    [sources : UNION {[1..n -> {<<"Err">>, <<"None">>} \cup {<<"Some", i>> : i \in AppInfos}]
                         : n \in 0..MaxSources},
     load : {"ok", "fails"},
     write : {"ok", "fails"}]

\* one App-Hash Sync run
AppHashCheckUpdate ==
    /\ output = <<>>
    /\ output' = <<apphash_check_update(InitialManifest, input.sources, input.load,
                                        input.write)>>
    /\ UNCHANGED <<restVars, input>>

AppHashSpec == InitApply(AppHashInputs) /\ [][AppHashCheckUpdate]_vars

\* the sources of a run that yield a value
Yielding(in) == {k \in DOMAIN in.sources : in.sources[k][1] = "Some"}

\* C34: a run that has loaded the manifest fetches the sources in order up
\* to the first that yields a value and none after it (all of them when none
\* yields one).  If that value differs from the manifest's appVersion or
\* appHash the file is written once, and the written file has the value as
\* its appVersion and appHash and every other key as before; if it equals
\* the pair, or no source yields a value, the file is not written.
C34_AppHashSync ==
    (output # <<>> /\ input.load = "ok") =>
        LET out == output[1]
            hits == Yielding(input)
        IN IF hits = {}
           THEN out = [file |-> InitialManifest, fetched |-> Len(input.sources), writes |-> 0]
           ELSE LET first == CHOOSE k \in hits : \A m \in hits : k <= m
                    info == input.sources[first][2]
                IN /\ out.fetched = first
                   /\ IF info.app_version = InitialManifest.appVersion
                         /\ info.app_hash = InitialManifest.appHash
                      THEN out.writes = 0 /\ out.file = InitialManifest
                      ELSE /\ out.writes = 1
                           /\ input.write = "ok" =>
                                /\ out.file.appVersion = info.app_version
                                /\ out.file.appHash = info.app_hash
                                /\ \A key \in DOMAIN InitialManifest \ {"appVersion", "appHash"} :
                                      out.file[key] = InitialManifest[key]

\* a failing source and an empty one were passed, the third yielded a new
\* hash for the same version, and the file has it
C34_Witness ==
    /\ output # <<>>
    /\ input.load = "ok" /\ input.write = "ok"
    /\ input.sources = <<<<"Err">>, <<"None">>,
                         <<"Some", [app_version |-> "1", app_hash |-> "h2"]>>>>
    /\ output[1].fetched = 3
    /\ output[1].file.appHash = "h2"
    /\ output[1].file.dataVersion = <<"1">>

\* ------------------------------------------------------------------------
\* The two updater jobs of a region, step by step
\* (src/updater/master.rs, src/updater/apphash.rs, src/updater/scheduler.rs)
\* ------------------------------------------------------------------------
\* 409 answers counted per endpoint (the count stops there, the answers do not)
Max409 == 2
updaterRest == <<engineVars, sessVars, taskVars, faults, histVars, todo, watchVars,
                 budgetVars, version_file, region, files, input, output>>

\* what the login of a Master Sync run announces
LoginResponses ==
    {[InitialManifest EXCEPT !.dataVersion = d, !.assetVersion = a,
                             !.assetHash = IF a = <<"1">> THEN "x1" ELSE "x2"]
        : d \in {<<"1">>, <<"1", ".", "1">>}, a \in {<<"1">>, <<"1", ".", "1">>}}

\* (an answer is a conflict or a transport error)
is_conflict_or_error(answer) == answer \in {"409", "error"}
\* call_asset_updater: resp.status().as_u16() == 409
is_conflict(answer) == answer = "409"

\* (join on the first endpoint that has ended)
join_any(eps) == \E e \in Endpoints : eps[e].state = "ended"
\* join_all(futures).await: every call_asset_updater has returned
join_all(eps) == \A e \in Endpoints : eps[e].state = "ended"

\* MasterUpdater::check_update: version_helper.load()
MasterLoad ==
    /\ updater.master = "idle"
    /\ updater' = [updater EXCEPT !.master = "login", !.current = manifest_file]
    /\ UNCHANGED <<updaterRest, manifest_file>>

\* check_update: the login and the version checks; a failed login ends the run
MasterLogin ==
    /\ updater.master = "login"
    /\ \/ updater' = [updater EXCEPT !.master = "done"]
       \/ \E resp \in LoginResponses :
            LET needs == check_cp_versions(
                             [data |-> resp.dataVersion, asset |-> resp.assetVersion],
                             [data |-> updater.current.dataVersion,
                              asset |-> updater.current.assetVersion])
            IN updater' = [updater EXCEPT
                              !.login = resp,
                              !.need_master = needs[1],
                              !.need_asset = needs[2],
                              !.master = IF needs[2] THEN "notify"
                                         ELSE IF needs[1] THEN "download" ELSE "done"]
    /\ UNCHANGED <<updaterRest, manifest_file>>

\* call_asset_updater: the POST to one endpoint, the first or the one after
\* the 60 s sleep that follows a 409
EndpointSend(e) ==
    /\ updater.master = "notify"
    /\ updater.endpoint[e].state \in {"ready", "sleep"}
    /\ updater' = [updater EXCEPT !.endpoint[e].state = "sent"]
    /\ UNCHANGED <<updaterRest, manifest_file>>

\* call_asset_updater: the answer to a POST, or its transport error
EndpointAnswer(e) ==
    /\ updater.master = "notify"
    /\ updater.endpoint[e].state = "sent"
    /\ \E answer \in {"409", "200", "500", "error"} :
          updater' = [updater EXCEPT
                         !.endpoint[e] =
                             [state |-> IF is_conflict(answer) THEN "sleep" ELSE "ended",
                              conflicts |-> IF answer = "409" /\ @.conflicts < Max409
                                            THEN @.conflicts + 1 ELSE @.conflicts,
                              last |-> answer]]
    /\ UNCHANGED <<updaterRest, manifest_file>>

\* call_all_asset_updaters returns: check_update goes on to the master data,
\* or to the manifest when only the assets are new
NotifyJoin ==
    /\ updater.master = "notify"
    /\ join_all(updater.endpoint)
    /\ updater' = [updater EXCEPT !.master = IF updater.need_master THEN "download"
                                             ELSE "save_read"]
    /\ UNCHANGED <<updaterRest, manifest_file>>

\* check_update: update_master_data; its error is logged and the run goes on
MasterDownload ==
    /\ updater.master = "download"
    /\ updater' = [updater EXCEPT !.master = "save_read"]
    /\ UNCHANGED <<updaterRest, manifest_file>>

\* save_version: the manifest is read into `existing`
MasterSaveRead ==
    /\ updater.master = "save_read"
    /\ updater' = [updater EXCEPT !.master = "save_write", !.existing = manifest_file]
    /\ UNCHANGED <<updaterRest, manifest_file>>

\* save_version: the six keys of new_version (the app pair of the version
\* loaded when the run began, the rest from the login) are inserted into
\* `existing`, which is written back
MasterSaveWrite ==
    /\ updater.master = "save_write"
    /\ manifest_file' = [updater.existing EXCEPT
                            !.appVersion = updater.current.appVersion,
                            !.appHash = updater.current.appHash,
                            !.dataVersion = updater.login.dataVersion,
                            !.assetVersion = updater.login.assetVersion,
                            !.assetHash = updater.login.assetHash,
                            !.cdnVersion = updater.login.cdnVersion]
    /\ updater' = [updater EXCEPT !.master = "saved"]
    /\ UNCHANGED updaterRest

\* AppHashUpdater::check_update: load_current_version
AppHashLoad ==
    /\ updater.apphash = "idle"
    /\ updater' = [updater EXCEPT
                      !.apphash = "fetch",
                      !.app_current = [app_version |-> manifest_file.appVersion,
                                       app_hash |-> manifest_file.appHash]]
    /\ UNCHANGED <<updaterRest, manifest_file>>

\* AppHashUpdater::check_update: the sources yield nothing, or the first
\* value one of them yields is compared with the pair loaded
AppHashFetch ==
    /\ updater.apphash = "fetch"
    /\ \/ updater' = [updater EXCEPT !.apphash = "done"]
       \/ \E info \in AppInfos :
            updater' = [updater EXCEPT
                           !.new_info = info,
                           !.apphash = IF app_info_differs(info, updater.app_current)
                                       THEN "update_read" ELSE "done"]
    /\ UNCHANGED <<updaterRest, manifest_file>>

\* update_version: the manifest is read
AppHashUpdateRead ==
    /\ updater.apphash = "update_read"
    /\ updater' = [updater EXCEPT !.apphash = "update_write", !.version = manifest_file]
    /\ UNCHANGED <<updaterRest, manifest_file>>

\* update_version: the two keys are inserted and the map is written back
AppHashUpdateWrite ==
    /\ updater.apphash = "update_write"
    /\ manifest_file' = update_version(updater.version, updater.new_info)
    /\ updater' = [updater EXCEPT !.apphash = "written"]
    /\ UNCHANGED updaterRest

MasterSync ==
    \/ MasterLoad \/ MasterLogin \/ NotifyJoin \/ MasterDownload
    \/ MasterSaveRead \/ MasterSaveWrite
AssetNotify == \E e \in Endpoints : EndpointSend(e) \/ EndpointAnswer(e)
AppHashSync == AppHashLoad \/ AppHashFetch \/ AppHashUpdateRead \/ AppHashUpdateWrite

\* one Master Sync run and one App-Hash Sync run of a region, as the
\* scheduler's two jobs run them
InitUpdater == InitWith({{}}, 0, 0, 0)
NextUpdater == MasterSync \/ AssetNotify \/ AppHashSync
UpdaterSpec == InitUpdater /\ [][NextUpdater]_vars

\* the same, with every endpoint's task making its steps: join_all polls
\* each of the futures it was given
FairUpdaterSpec ==
    UpdaterSpec /\ \A e \in Endpoints : WF_vars(EndpointSend(e))


\* ------------------------------------------------------------------------
\* C33, C38, C39: the updater jobs
\* ------------------------------------------------------------------------
\* the notification of endpoint e has ended
Ended(e) == updater.endpoint[e].state = "ended"

\* C33: an endpoint's notification is sent again after every 409 answer,
\* however many there have been, and ends at the first other answer or
\* transport error, after which nothing more is sent to it; and once the
\* notifications are under way every endpoint gets its request, whatever
\* the other endpoints answer.
C33_AssetNotifications ==
    /\ [](\A e \in Endpoints :
            /\ updater.endpoint[e].state = "sleep" => updater.endpoint[e].last = "409"
            /\ Ended(e) => updater.endpoint[e].last \in {"200", "500", "error"})
    /\ [][\A e \in Endpoints :
            /\ Ended(e) => updater'.endpoint[e] = updater.endpoint[e]
            /\ (updater.endpoint[e].state = "sent" /\ updater'.endpoint[e].state # "sent")
                  => IF updater'.endpoint[e].last = "409"
                     THEN updater'.endpoint[e].state = "sleep"
                     ELSE updater'.endpoint[e].state = "ended"]_vars
    /\ \A e \in Endpoints :
          (updater.master = "notify" /\ updater.endpoint[e].state = "sleep")
              ~> (updater.endpoint[e].state = "sent")
    /\ \A e \in Endpoints :
          (updater.master = "notify") ~> (updater.endpoint[e].state # "ready")

\* the first endpoint has answered 409 as often as is counted and has been
\* sent the notification once more; the second has its first request out
C33_Witness ==
    /\ updater.master = "notify"
    /\ updater.endpoint["e1"] = [state |-> "sent", conflicts |-> Max409, last |-> "409"]
    /\ updater.endpoint["e2"] = [state |-> "sent", conflicts |-> 0, last |-> "none"]

\* C38: however a Master Sync run and an App-Hash Sync run interleave, once
\* the one has saved its versions and the other has written its pair the
\* manifest holds the new pair next to the new dataVersion, assetVersion,
\* assetHash and cdnVersion.
C38_NoLostUpdate ==
    (updater.master = "saved" /\ updater.apphash = "written") =>
        /\ manifest_file.appVersion = updater.new_info.app_version
        /\ manifest_file.appHash = updater.new_info.app_hash
        /\ manifest_file.dataVersion = updater.login.dataVersion
        /\ manifest_file.assetVersion = updater.login.assetVersion
        /\ manifest_file.assetHash = updater.login.assetHash
        /\ manifest_file.cdnVersion = updater.login.cdnVersion

\* the keys of the manifest a Master Sync run writes
MasterKeys(file) == <<file.dataVersion, file.assetVersion, file.assetHash, file.cdnVersion>>

\* C39: in a run that needs both the assets and the master data, the master
\* download and everything after it come only when the notification of every
\* endpoint has ended; while one of them has not (its endpoint answering 409
\* again and again), the run stays where it is and the manifest keeps its
\* versions.
C39_DownloadAfterNotifications ==
    /\ []((updater.need_asset /\ updater.need_master
             /\ updater.master \in {"download", "save_read", "save_write", "saved"})
            => \A e \in Endpoints : Ended(e))
    /\ [][(updater.master = "notify" /\ updater.need_master
             /\ \E e \in Endpoints : ~Ended(e))
            => /\ updater'.master = "notify"
               /\ MasterKeys(manifest_file') = MasterKeys(InitialManifest)]_vars

\* one endpoint has ended, the other has answered 409 as often as is counted
\* and sleeps: the download has not begun and the manifest has the old versions
C39_Witness ==
    /\ updater.master = "notify"
    /\ updater.need_asset /\ updater.need_master
    /\ Ended("e2")
    /\ updater.endpoint["e1"] = [state |-> "sleep", conflicts |-> Max409, last |-> "409"]
    /\ MasterKeys(manifest_file) = MasterKeys(InitialManifest)

====
